---- MODULE Spec2Model ----
(***************************************************************************)
(* Supply-chain season simulation: the monthly simulation engine, the      *)
(* option valuer, the quantity optimizer, the order splitter and the Monte *)
(* Carlo evaluator, as one state machine over an explicit call stack.      *)
(*                                                                         *)
(* Numbers.  Prices, costs and demand parameters are integers, so every    *)
(* f64 sum and product of the engine is exact and is modelled by integer   *)
(* arithmetic.  The option valuer's reals (exp, powers, probabilities) are *)
(* fixed-point numbers with SCALE units per 1.0; NaN is a value of its     *)
(* own.  Every quantity of the model stays far below u32::MAX (TLC's      *)
(* integers end at 2^31 - 1), so u32 sums are plain sums.                  *)
(***************************************************************************)
EXTENDS Integers, Sequences, FiniteSets, TLC

\* ------------------------------------------------------------------ bounds

\* num_simulations handed to run_monte_carlo_simulation: 1..MaxSimulations
\* for the scenarios of steady actual demand, 1 for the others
MaxSimulations == 1

\* direct calls of split_order_quantities: at most MaxProducts target
\* quantities, each 0..MaxTarget, supplier capacities 0..MaxCapacity
MaxProducts == 2

MaxTarget == 3

MaxCapacity == 2

\* direct reductions of a profit vector: 1..MaxProfits profits, each
\* -1..MaxProfit
MaxProfits == 4

MaxProfit == 1

\* direct calls of generate_intelligent_pairs: at most MaxSuppliers suppliers
MaxSuppliers == 3

\* ------------------------------------------------------- program constants

TOTAL_MONTHS == 8

MONTHS == <<"May", "June", "July", "August", "September", "October",
            "November", "December">>

\* the season length known to OptionValuation::new
SEASON_MONTHS == 8

\* the last month index at which the engine still values the option
LAST_OPTION_MONTH == 7

\* ----------------------------------------------------------------- helpers

Min(a, b) == IF a <= b THEN a ELSE b

Max(a, b) == IF a >= b THEN a ELSE b

\* u32::saturating_sub
SaturatingSub(a, b) == IF a >= b THEN a - b ELSE 0

RECURSIVE SumSeq(_)
SumSeq(s) == IF s = <<>> THEN 0 ELSE Head(s) + SumSeq(Tail(s))

\* ------------------------------------------------------------- order plans

Quantities(orders) == [i \in 1..Len(orders) |-> orders[i].quantity]

total_base_quantity(order) == SumSeq(Quantities(order.base_orders))

total_surge_quantity(order) == SumSeq(Quantities(order.surge_orders))

\* the first ProductOrder with the product id, or 0
RECURSIVE quantity_for(_, _)
quantity_for(orders, product_id) ==
    IF orders = <<>> THEN 0
    ELSE IF Head(orders).product_id = product_id THEN Head(orders).quantity
    ELSE quantity_for(Tail(orders), product_id)

base_quantity_for(order, product_id) == quantity_for(order.base_orders, product_id)

surge_quantity_for(order, product_id) == quantity_for(order.surge_orders, product_id)

\* ------------------------------------------------------- demand parameters

NoParams == [none |-> TRUE]

\* SimulationParams::get_demand_params: the first entry with the id, or None
RECURSIVE find_demand_params(_, _)
find_demand_params(dps, product_id) ==
    IF dps = <<>> THEN NoParams
    ELSE IF Head(dps).product_id = product_id THEN Head(dps)
    ELSE find_demand_params(Tail(dps), product_id)

get_demand_params(params, product_id) ==
    find_demand_params(params.demand_params, product_id)

\* HashMap::get(&product_id).copied().unwrap_or(0.0)
unit_cost_for(supplier, product_id) ==
    IF product_id \in DOMAIN supplier.unit_costs
    THEN supplier.unit_costs[product_id] ELSE 0

\* --------------------------------------------------- fixed-point arithmetic

\* units per 1.0 of the valuer's reals
SCALE == 1000

\* f64::NAN, a value no computation of the model reaches
NaN == 0 - 2000000000

\* a * b in SCALE units, rounded down; a is split so that no intermediate
\* product leaves the 32 bits of TLC's integers
FMul(a, b) == (a \div SCALE) * b + ((a % SCALE) * b) \div SCALE

FDiv(a, b) == (a * SCALE) \div b

\* f64 as u32: NaN and negatives give 0, the fraction is dropped
AsU32(x) == IF x = NaN THEN 0
            ELSE IF x < 0 THEN 0
            ELSE x \div SCALE

\* ------------------------------------------------------------------ demand

\* a slip of the selection: the other parameter set
selected_parameters_swapped(dp, use_actual) ==
    IF use_actual THEN <<dp.mean_demand, dp.std_dev_demand>>
    ELSE <<dp.actual_mean_demand, dp.actual_std_dev_demand>>

\* (mean, std_dev) of simulation_demand: the actual set or the planning set
selected_parameters(dp, use_actual) ==
    IF use_actual THEN <<dp.actual_mean_demand, dp.actual_std_dev_demand>>
    ELSE <<dp.mean_demand, dp.std_dev_demand>>

\* the last lines of simulation_demand, on reals in SCALE units: the sample
\* floored at 0 and cast to u32, capped at (mean + 3 std_dev) as u32
capped_demand(mean, std_dev, demand) ==
    LET max_reasonable_demand == mean + 3 * std_dev
    IN  Min(AsU32(Max(demand, 0)), AsU32(max_reasonable_demand))

\* One call of simulation_demand with whole-numbered parameters.  The normal
\* variate is mean + z * std_dev for a deviate z supplied by the random source.
simulation_demand(dp, use_actual, z) ==
    LET mean    == selected_parameters(dp, use_actual)[1]
        std_dev == selected_parameters(dp, use_actual)[2]
        demand  == mean + z * std_dev
    IN  capped_demand(mean * SCALE, std_dev * SCALE, demand * SCALE)

RECURSIVE ExpSeries(_, _, _)
ExpSeries(x, n, term) ==
    IF term = 0 THEN 0
    ELSE term + ExpSeries(x, n + 1, FMul(term, x) \div n)

\* f64::exp: the power series, summed until its terms vanish at SCALE
ExpF(x) == ExpSeries(x, 1, SCALE)

\* f64::powi: repeated multiplication, the reciprocal for a negative exponent
RECURSIVE PowPos(_, _)
PowPos(b, n) == IF n = 0 THEN SCALE ELSE FMul(b, PowPos(b, n - 1))

powi(b, n) == IF n >= 0 THEN PowPos(b, n) ELSE FDiv(SCALE, PowPos(b, 0 - n))

\* f64::max: the other operand when one is NaN
FMax(a, b) == IF b = NaN THEN a ELSE IF a = NaN THEN b ELSE Max(a, b)

\* ------------------------------------------------------------ option valuer

OptionValuation_new(current_order_quantity, inventory, current_month, params, pair) ==
    [current_order_quantity |-> current_order_quantity,
     inventory              |-> inventory,
     current_month          |-> current_month,
     remaining_months       |-> SEASON_MONTHS - current_month,
     params                 |-> params,
     pair                   |-> pair]

\* std_dev_demand / mean_demand of the valuer's parameters
valuer_cv(v) == (v.params.std_dev_demand * SCALE) \div v.params.mean_demand

\* a slip of the sales: taken from the inventory before the order arrives
update_inventory_before_incoming(v, inventory, demand) ==
    LET incoming      == v.current_order_quantity
        new_inventory == inventory + incoming
        sold          == Min(inventory, demand)
    IN  Max(new_inventory - sold, 0)

update_inventory(v, inventory, demand) ==
    LET incoming      == v.current_order_quantity
        new_inventory == inventory + incoming
        sold          == Min(new_inventory, demand)
    IN  Max(new_inventory - sold, 0)

calculate_exercise_payoff(v, current_inventory, cumulative_uplifts, u) ==
    LET forecast_demand == FMul(v.params.mean_demand * SCALE, powi(u, cumulative_uplifts))
        overage_cost    == v.params.monthly_holding_cost
        underage_cost   == v.params.selling_price - v.pair.surge_supplier.unit_cost
        \* underage / (underage + overage) > 0.5, false for NaN
        fractile_above_half ==
            IF underage_cost + overage_cost > 0 THEN underage_cost > overage_cost
            ELSE IF underage_cost + overage_cost < 0 THEN underage_cost < overage_cost
            ELSE underage_cost > 0
        node_std_dev == FMul(forecast_demand, valuer_cv(v))
        z_score      == IF fractile_above_half THEN (1645 * SCALE) \div 1000 ELSE 0
        optimal_q    == forecast_demand + FMul(z_score, node_std_dev)
        new_q        == optimal_q
        old_q        == v.current_order_quantity * SCALE
        margin       == v.params.selling_price - v.pair.surge_supplier.unit_cost
        demand_captured_improvement ==
            IF new_q > old_q THEN Min(new_q - old_q, forecast_demand) ELSE 0
        holding_savings ==
            IF new_q < old_q THEN (old_q - new_q) * v.params.monthly_holding_cost ELSE 0
        benefit == demand_captured_improvement * margin + holding_savings
    IN  benefit - v.params.order_change_fee * SCALE

\* the base case of the lattice: the end of the evaluation period
\* a slip of the base case: > instead of >=
reached_end_late(v, period) == period > v.remaining_months

reached_end(v, period) == period >= v.remaining_months

\* u = exp(cv) and d = 1 / u of the lattice
uplift(v) == ExpF(valuer_cv(v))

downlift(v) == FDiv(SCALE, uplift(v))

\* the demands of the two scenarios below a node of cumulative_uplifts
node_demand_up(v, cumulative_uplifts) ==
    AsU32(FMul(v.params.mean_demand * SCALE,
               powi(uplift(v), cumulative_uplifts + 1)))

node_demand_down(v, cumulative_uplifts) ==
    AsU32(FMul(v.params.mean_demand * SCALE,
               powi(downlift(v), 0 - (cumulative_uplifts + 1))))

\* the risk-neutral probability (1 - d) / (u - d): 0/0 when u = d = 1
risk_neutral_probability(v) ==
    IF uplift(v) - downlift(v) = 0 THEN NaN
    ELSE FDiv(SCALE - downlift(v), uplift(v) - downlift(v))

\* p * continuation_up + (1 - p) * continuation_down, NaN when p is
continuation_of(p, continuation_up, continuation_down) ==
    IF p = NaN THEN NaN
    ELSE FMul(p, continuation_up) + FMul(SCALE - p, continuation_down)

RECURSIVE binomial_value_recursive(_, _, _, _)
binomial_value_recursive(v, period, cumulative_uplifts, inventory) ==
    IF reached_end(v, period) THEN 0
    ELSE
      LET u  == uplift(v)
          demand_up   == node_demand_up(v, cumulative_uplifts)
          demand_down == node_demand_down(v, cumulative_uplifts)
          exercise_payoff ==
              calculate_exercise_payoff(v, inventory, cumulative_uplifts, u)
          continuation_up ==
              binomial_value_recursive(v, period + 1, cumulative_uplifts + 1,
                                       update_inventory(v, inventory, demand_up))
          continuation_down ==
              binomial_value_recursive(v, period + 1, cumulative_uplifts - 1,
                                       update_inventory(v, inventory, demand_down))
          p == risk_neutral_probability(v)
          continuation_value ==
              continuation_of(p, continuation_up, continuation_down)
      IN  FMax(exercise_payoff, continuation_value)

\* the calls binomial_value_recursive makes from its call for `period` on
\* that have not reached the end, each with its arguments, the demands of
\* its two scenarios, the inventories it passes to its two calls, the values
\* they return and its own
RECURSIVE lattice_nodes(_, _, _, _)
lattice_nodes(v, period, cumulative_uplifts, inventory) ==
    IF reached_end(v, period) THEN {}
    ELSE
      LET demand_up      == node_demand_up(v, cumulative_uplifts)
          demand_down    == node_demand_down(v, cumulative_uplifts)
          inventory_up   == update_inventory(v, inventory, demand_up)
          inventory_down == update_inventory(v, inventory, demand_down)
      IN  {[period             |-> period,
            cumulative_uplifts |-> cumulative_uplifts,
            inventory          |-> inventory,
            demand_up          |-> demand_up,
            demand_down        |-> demand_down,
            inventory_up       |-> inventory_up,
            inventory_down     |-> inventory_down,
            exercise_payoff    |->
                calculate_exercise_payoff(v, inventory, cumulative_uplifts,
                                          uplift(v)),
            continuation_up    |->
                binomial_value_recursive(v, period + 1, cumulative_uplifts + 1,
                                         inventory_up),
            continuation_down  |->
                binomial_value_recursive(v, period + 1, cumulative_uplifts - 1,
                                         inventory_down),
            value              |->
                binomial_value_recursive(v, period, cumulative_uplifts,
                                         inventory)]}
          \cup lattice_nodes(v, period + 1, cumulative_uplifts + 1, inventory_up)
          \cup lattice_nodes(v, period + 1, cumulative_uplifts - 1, inventory_down)

value_option(v) ==
    IF v.remaining_months = 0 THEN 0
    ELSE binomial_value_recursive(v, 0, 0, v.inventory)

\* the number of nested calls binomial_value_recursive makes below its call
\* for `period`: each call that has not reached the end calls itself for
\* period + 1 in both branches
RECURSIVE recursion_depth(_, _)
recursion_depth(v, period) ==
    IF reached_end(v, period) THEN 0
    ELSE 1 + Max(recursion_depth(v, period + 1), recursion_depth(v, period + 1))

\* the recursion depth of value_option: that of its call for period 0
value_option_depth(v) ==
    IF v.remaining_months = 0 THEN 0 ELSE recursion_depth(v, 0)

\* ----------------------------------------------------------- order splitter

\* a slip of the base weight: 1 / (1 + cv) taken as 1 - cv
ideal_base_linear(total_quantity, dp) ==
    IF dp = NoParams THEN (total_quantity * 4) \div 5
    ELSE IF dp.mean_demand = 0 THEN 0
    ELSE (total_quantity * Max(dp.mean_demand - dp.std_dev_demand, 0))
             \div dp.mean_demand

\* (total_quantity as f64 * (1.0 / (1.0 + cv))) as u32 with cv = std_dev / mean
\* (0.2 when the product has no demand parameters).  A zero mean makes cv
\* infinite or NaN, and both give 0.
ideal_base(total_quantity, dp) ==
    IF dp = NoParams THEN (total_quantity * 5) \div 6
    ELSE IF dp.mean_demand = 0 THEN 0
    ELSE (total_quantity * dp.mean_demand) \div (dp.mean_demand + dp.std_dev_demand)

\* the loop of split_order_quantities over product_quantities, a sequence of
\* <<product_id, desired_quantity>>
RECURSIVE split_loop(_, _, _, _, _)
split_loop(product_quantities, params, base_capacity_remaining, surge_capacity_remaining, order) ==
    IF product_quantities = <<>> THEN order
    ELSE
      LET product_id     == Head(product_quantities)[1]
          total_quantity == Head(product_quantities)[2]
          base_quantity  == Min(ideal_base(total_quantity,
                                           get_demand_params(params, product_id)),
                                base_capacity_remaining)
          remaining      == SaturatingSub(total_quantity, base_quantity)
          surge_quantity == Min(remaining, surge_capacity_remaining)
      IN  split_loop(Tail(product_quantities), params,
                     SaturatingSub(base_capacity_remaining, base_quantity),
                     SaturatingSub(surge_capacity_remaining, surge_quantity),
                     [base_orders  |-> Append(order.base_orders,
                          [product_id |-> product_id, quantity |-> base_quantity]),
                      surge_orders |-> Append(order.surge_orders,
                          [product_id |-> product_id, quantity |-> surge_quantity])])

\* a slip of the remaining capacities: each supplier starts with the other's
split_order_quantities_swapped(product_quantities, pair, params) ==
    split_loop(product_quantities, params,
               pair.surge_supplier.fixed_capacity,
               pair.base_supplier.fixed_capacity,
               [base_orders |-> <<>>, surge_orders |-> <<>>])

split_order_quantities(product_quantities, pair, params) ==
    split_loop(product_quantities, params,
               pair.base_supplier.fixed_capacity,
               pair.surge_supplier.fixed_capacity,
               [base_orders |-> <<>>, surge_orders |-> <<>>])

\* Result::Ok(())
Ok == [ok |-> TRUE]

\* a slip of the validation: the surge supplier is compared first
validate_capacity_constraint_surge_first(order, pair) ==
    LET total_base  == total_base_quantity(order)
        total_surge == total_surge_quantity(order)
    IN  IF total_surge > pair.surge_supplier.fixed_capacity
        THEN [ok            |-> FALSE,
              message       |-> "Surge supplier capacity exceeded",
              supplier_name |-> pair.surge_supplier.name,
              capacity      |-> pair.surge_supplier.fixed_capacity,
              requested     |-> total_surge]
        ELSE IF total_base > pair.base_supplier.fixed_capacity
        THEN [ok            |-> FALSE,
              message       |-> "Base supplier capacity exceeded",
              supplier_name |-> pair.base_supplier.name,
              capacity      |-> pair.base_supplier.fixed_capacity,
              requested     |-> total_base]
        ELSE Ok

\* an Err carries the supplier's name, its capacity and the requested total
validate_capacity_constraint(order, pair) ==
    LET total_base  == total_base_quantity(order)
        total_surge == total_surge_quantity(order)
    IN  IF total_base > pair.base_supplier.fixed_capacity
        THEN [ok            |-> FALSE,
              message       |-> "Base supplier capacity exceeded",
              supplier_name |-> pair.base_supplier.name,
              capacity      |-> pair.base_supplier.fixed_capacity,
              requested     |-> total_base]
        ELSE IF total_surge > pair.surge_supplier.fixed_capacity
        THEN [ok            |-> FALSE,
              message       |-> "Surge supplier capacity exceeded",
              supplier_name |-> pair.surge_supplier.name,
              capacity      |-> pair.surge_supplier.fixed_capacity,
              requested     |-> total_surge]
        ELSE Ok

\* --------------------------------------------------------- quantity optimizer

\* the candidates of find_optimal_single_product
NUM_CANDIDATES == 12

\* simulations_per_candidate as find_optimal_production_quantities_internal
\* passes it
SIMULATIONS_PER_CANDIDATE == 15

\* f64::NEG_INFINITY, below every profit of the model
NEG_INFINITY == 0 - 2000000001

\* a slip of the default: 0 without demand parameters
single_base_demand_zero(params) ==
    LET dp == get_demand_params(params, params.products[1].id)
    IN  IF dp = NoParams THEN 0 ELSE dp.mean_demand

\* base_demand of find_optimal_single_product: the planning mean, 60000
\* without demand parameters
single_base_demand(params) ==
    LET dp == get_demand_params(params, params.products[1].id)
    IN  IF dp = NoParams THEN 60000 ELSE dp.mean_demand

\* (base_demand * (0.7 + 0.5 * i / 11)) as u32, i = 0..11
candidate_quantity(base_demand, i) ==
    (base_demand * (77 + 5 * i)) \div 110

\* the order a candidate is scored with: everything on the base supplier
candidate_order(product_id, quantity) ==
    [base_orders  |-> <<[product_id |-> product_id, quantity |-> quantity]>>,
     surge_orders |-> <<[product_id |-> product_id, quantity |-> 0]>>]

\* profits.iter().sum() / profits.len(), in SCALE units
mean_profit_of(profits) == (SumSeq(profits) * SCALE) \div Len(profits)

\* a slip of the comparison: the worse mean wins
is_better_inverted(mean_profit, best_profit) == best_profit = NEG_INFINITY \/ mean_profit < best_profit

\* `if mean_profit > best_profit`: only a strictly greater mean replaces the best
is_better(mean_profit, best_profit) == mean_profit > best_profit

\* what the search has scored so far, kept for the properties: the pass, the
\* quantities, the mean profit, the number of runs behind it and the
\* enable_options its runs were given
score_entry(f, quantities) ==
    [pass |-> f.pc, quantities |-> quantities,
     mean_profit |-> mean_profit_of(f.profits),
     runs |-> Len(f.profits), enable_options |-> f.enable_options]

\* a slip of the feasibility filter: one unit over the capacity passes
over_capacity_lenient(qty_a, qty_b, total_capacity) == qty_a + qty_b > total_capacity + 1

\* `if qty_a + qty_b > total_capacity { continue; }` of both passes
over_capacity(qty_a, qty_b, total_capacity) == qty_a + qty_b > total_capacity

\* the two-product grid search: the steps and the simulations of its passes
COARSE_STEPS == 5

COARSE_SIMS == 30

FINE_STEPS == 4

FINE_SIMS == 50

\* (demand * (0.7 + 0.5 * (i / 5))) as u32, i = 0..5, as f64 computes it for a
\* whole demand below 30: the factor of i = 1 is 0.7999999999999999, so a
\* product that would be whole falls one short
coarse_quantity(demand, i) ==
    IF i = 1 /\ demand > 0 /\ (demand * 8) % 10 = 0
    THEN (demand * 8) \div 10 - 1
    ELSE (demand * (7 + i)) \div 10

\* the fine window around a best coarse quantity below 100:
\* (best * 0.85) as u32 and (best * 1.15) as u32
fine_window(best) == [min |-> (best * 85) \div 100, max |-> (best * 115) \div 100]

\* min + ((max - min) as f64 * (i / 4)) as u32, i = 0..4
fine_quantity(window, i) ==
    window.min + ((window.max - window.min) * i) \div FINE_STEPS

\* the order a grid point is scored with: everything on the base supplier
grid_order(product_a_id, qty_a, product_b_id, qty_b) ==
    [base_orders  |-> <<[product_id |-> product_a_id, quantity |-> qty_a],
                        [product_id |-> product_b_id, quantity |-> qty_b]>>,
     surge_orders |-> <<[product_id |-> product_a_id, quantity |-> 0],
                        [product_id |-> product_b_id, quantity |-> 0]>>]

\* the planning mean of each product, 0 without demand parameters
product_means(params) ==
    [i \in 1..Len(params.products) |->
        LET dp == get_demand_params(params, params.products[i].id)
        IN  <<params.products[i].id, IF dp = NoParams THEN 0 ELSE dp.mean_demand>>]

\* a slip of the allocation: the capacity shared evenly
allocate_proportionally_evenly(products, total_capacity) ==
    [i \in 1..Len(products) |-> <<products[i][1], total_capacity \div Len(products)>>]

\* (total_capacity as f64 * (demand / total_demand)) as u32, as f64 computes
\* it for a capacity below 22 and whole means; 0/0 is NaN and NaN as u32 is 0
allocate_proportionally(products, total_capacity) ==
    LET total_demand == SumSeq([i \in 1..Len(products) |-> products[i][2]])
    IN  [i \in 1..Len(products) |->
            <<products[i][1],
              IF total_demand = 0 THEN 0
              ELSE (total_capacity * products[i][2]) \div total_demand>>]

\* -------------------------------------------------- monthly simulation engine

\* Option::None of pending_order
None == [none |-> TRUE]

\* Some((effective_month, new_order))
Some(effective_month, new_order) ==
    [none |-> FALSE, effective_month |-> effective_month, order |-> new_order]

\* the state of run_monthly_simulation_internal before its first month
engine_start(params, initial_order, enable_options, use_actual_demand) ==
    [kind              |-> "engine",
     enable_options    |-> enable_options,
     use_actual_demand |-> use_actual_demand,
     pc                |-> "month",
     month_idx         |-> 0,
     inventories       |-> [id \in {params.products[i].id : i \in 1..Len(params.products)}
                               |-> 0],
     total_profit      |-> 0,
     monthly_results   |-> <<>>,
     current_order     |-> initial_order,
     pending_order     |-> None,
     base_setup_cost_deducted  |-> FALSE,
     surge_setup_cost_deducted |-> FALSE,
     month             |-> None,
     audit             |-> <<>>]

\* a slip of units_sold: the demand, whatever is on hand
units_sold_unbounded(inventory_after_incoming, monthly_demand) == monthly_demand

\* units_sold of a product: what is on hand after the incoming order, at most
\* the demand
units_sold_of(inventory_after_incoming, monthly_demand) ==
    Min(inventory_after_incoming, monthly_demand)

\* a slip of the setup cost: the deducted flag is not read
setup_due_unflagged(total_quantity, setup_cost_deducted) == total_quantity > 0

\* whether a supplier's setup cost is deducted this month: the first month
\* the current order holds a quantity for it
setup_due(total_quantity, setup_cost_deducted) ==
    total_quantity > 0 /\ ~setup_cost_deducted

\* a slip of the profit sum: = instead of +=
add_profit_overwriting(total_profit, monthly_profit) == monthly_profit

\* total_profit += monthly_profit
add_profit(total_profit, monthly_profit) == total_profit + monthly_profit

\* a slip of the holding cost: a flat rate per product, whatever the stock
holding_cost_flat(inventory_end, product) == product.monthly_holding_cost

\* (inventory_end as f64) * product.monthly_holding_cost, on the inventory
\* after the sales and before the liquidation
holding_cost_of(inventory_end, product) == inventory_end * product.monthly_holding_cost

\* a slip of the liquidation month: November already
is_december_early(month_idx) == month_idx >= TOTAL_MONTHS - 2

\* `if month_idx == TOTAL_MONTHS - 1`: the month of the liquidation
is_december(month_idx) == month_idx = TOTAL_MONTHS - 1

\* One product of the month's product loop: its ledger line.
product_month(product, params, pair, current_order, inventory_start, month_idx, use_actual_demand, z) ==
    LET product_id     == product.id
        base_incoming  == base_quantity_for(current_order, product_id)
        surge_incoming == surge_quantity_for(current_order, product_id)
        incoming       == base_incoming + surge_incoming
        inventory_after_incoming == inventory_start + incoming
        demand_params  == get_demand_params(params, product_id)
        monthly_demand == IF demand_params = NoParams THEN 0
                          ELSE simulation_demand(demand_params, use_actual_demand, z)
        units_sold     == units_sold_of(inventory_after_incoming, monthly_demand)
        inventory_end  == inventory_after_incoming - units_sold
        revenue        == units_sold * product.selling_price
        production_cost ==
            base_incoming * unit_cost_for(pair.base_supplier, product_id)
            + surge_incoming * unit_cost_for(pair.surge_supplier, product_id)
        holding_cost   == holding_cost_of(inventory_end, product)
        december       == is_december(month_idx)
    IN  [product_id          |-> product_id,
         inventory_start     |-> inventory_start,
         incoming            |-> incoming,
         demand              |-> monthly_demand,
         units_sold          |-> units_sold,
         inventory_end       |-> IF december THEN 0 ELSE inventory_end,
         revenue             |-> revenue,
         production_cost     |-> production_cost,
         holding_cost        |-> holding_cost,
         liquidation_revenue |-> IF december
                                 THEN inventory_end * product.liquidation_price
                                 ELSE 0]

\* The product loop from product i on: the inventories after it and the
\* product results, zs[i] being the deviate of product i's demand draw.
RECURSIVE product_loop(_, _, _, _, _, _, _, _, _)
product_loop(i, params, pair, current_order, inventories, month_idx, use_actual_demand, zs, product_results) ==
    IF i > Len(params.products)
    THEN [inventories |-> inventories, product_results |-> product_results]
    ELSE
      LET product == params.products[i]
          r == product_month(product, params, pair, current_order,
                             inventories[product.id], month_idx,
                             use_actual_demand, zs[i])
      IN  product_loop(i + 1, params, pair, current_order,
                       [inventories EXCEPT ![product.id] = r.inventory_end],
                       month_idx, use_actual_demand, zs,
                       Append(product_results, r))

\* a slip of the comparison: > instead of >=
pending_due_late(pending_order, month_idx) ==
    ~pending_order.none /\ month_idx > pending_order.effective_month

\* `if let Some((effective_month, _)) = &pending_order` with `month_idx >=
\* *effective_month`: the pending order takes effect this month
pending_due(pending_order, month_idx) ==
    ~pending_order.none /\ month_idx >= pending_order.effective_month

\* A month up to the end of its product loop: the pending order taking
\* effect, the setup costs, the product loop.
month_begin(f, params, pair, zs) ==
    LET takes_effect == pending_due(f.pending_order, f.month_idx)
        current_order == IF takes_effect THEN f.pending_order.order
                         ELSE f.current_order
        pending_order == IF takes_effect THEN None ELSE f.pending_order
        order_change_cost_this_month ==
            IF takes_effect THEN params.order_change_fee ELSE 0
        base_setup  == setup_due(total_base_quantity(current_order),
                                 f.base_setup_cost_deducted)
        surge_setup == setup_due(total_surge_quantity(current_order),
                                 f.surge_setup_cost_deducted)
        setup_cost_this_month ==
            (IF base_setup THEN pair.base_supplier.setup_cost ELSE 0)
            + (IF surge_setup THEN pair.surge_supplier.setup_cost ELSE 0)
        loop == product_loop(1, params, pair, current_order, f.inventories,
                             f.month_idx, f.use_actual_demand, zs, <<>>)
    IN  [current_order  |-> current_order,
         pending_order  |-> pending_order,
         order_change_cost_this_month |-> order_change_cost_this_month,
         setup_cost_this_month        |-> setup_cost_this_month,
         base_setup_cost_deducted  |-> f.base_setup_cost_deducted \/ base_setup,
         surge_setup_cost_deducted |-> f.surge_setup_cost_deducted \/ surge_setup,
         inventories     |-> loop.inventories,
         product_results |-> loop.product_results,
         took_effect     |-> takes_effect,
         base_setup      |-> base_setup,
         surge_setup     |-> surge_setup]

\* a slip of the guard: the pending order is not looked at
values_option_pending(f, m) ==
    f.enable_options /\ f.month_idx < LAST_OPTION_MONTH

\* whether the month values the option
values_option(f, m) ==
    f.enable_options /\ m.pending_order.none /\ f.month_idx < LAST_OPTION_MONTH

\* inventories.values().sum()
RECURSIVE SumValues(_, _)
SumValues(f, keys) ==
    IF keys = {} THEN 0
    ELSE LET k == CHOOSE x \in keys : TRUE
         IN  f[k] + SumValues(f, keys \ {k})

\* the valuer the engine builds after the product loop, and its value
option_valuer(f, m, params, pair) ==
    LET total_inventory     == SumValues(m.inventories, DOMAIN m.inventories)
        total_current_order == total_base_quantity(m.current_order)
                               + total_surge_quantity(m.current_order)
    IN  OptionValuation_new(total_current_order, total_inventory,
                            f.month_idx, params, pair)

month_option_value(f, m, params, pair) == value_option(option_valuer(f, m, params, pair))

\* whether the option is exercised: its value exceeds the fixed fee
exercises(f, m, params, pair) ==
    /\ values_option(f, m)
    /\ month_option_value(f, m, params, pair) > params.order_change_fee * SCALE

\* a slip of the revision: the whole target goes to the surge supplier
new_surge_orders_whole(new_allocations, current_order) ==
    [i \in 1..Len(new_allocations) |->
        [product_id |-> new_allocations[i][1], quantity |-> new_allocations[i][2]]]

\* new_surge_orders: optimal_qty.saturating_sub(current_base) per allocation
new_surge_orders_of(new_allocations, current_order) ==
    [i \in 1..Len(new_allocations) |->
        [product_id |-> new_allocations[i][1],
         quantity   |-> SaturatingSub(new_allocations[i][2],
                            base_quantity_for(current_order, new_allocations[i][1]))]]

\* a slip of the scaling: the surge orders are kept whatever their total
final_surge_orders_unscaled(new_allocations, current_order, pair) ==
    new_surge_orders_of(new_allocations, current_order)

\* the surge orders of a revision: max(0, target - current base) per product,
\* scaled down by surge_capacity / total when the total exceeds the capacity
final_surge_orders(new_allocations, current_order, pair) ==
    LET new_surge_orders == new_surge_orders_of(new_allocations, current_order)
        total_new_surge == SumSeq(Quantities(new_surge_orders))
        surge_capacity  == pair.surge_supplier.fixed_capacity
    IN  IF total_new_surge > surge_capacity
        THEN [i \in 1..Len(new_surge_orders) |->
                [product_id |-> new_surge_orders[i].product_id,
                 quantity   |-> (new_surge_orders[i].quantity * surge_capacity)
                                \div total_new_surge]]
        ELSE new_surge_orders

\* a slip of the season bound: <= instead of <
in_season_inclusive(effective_month) == effective_month <= TOTAL_MONTHS

\* whether a revision effective in effective_month is scheduled at all
in_season(effective_month) == effective_month < TOTAL_MONTHS

\* the pending order after an exercise in month_idx
schedule(month_idx, current_order, new_allocations, pair) ==
    LET new_order == [base_orders  |-> current_order.base_orders,
                      surge_orders |-> final_surge_orders(new_allocations,
                                                          current_order, pair)]
        effective_month == month_idx + pair.surge_supplier.lead_time_months
    IN  IF in_season(effective_month) THEN Some(effective_month, new_order)
        ELSE None

RECURSIVE SumField(_, _)
SumField(rs, field) ==
    IF rs = <<>> THEN 0 ELSE Head(rs)[field] + SumField(Tail(rs), field)

\* The end of a month: the profit, the ledger entry, the next month.  m is the
\* month up to its product loop, pending the pending order after the option
\* block; valued, value and exercised record what the option block did.
month_end(f, m, params, pair, pending, valued, exercised, new_allocations) ==
    LET monthly_profit ==
            SumField(m.product_results, "revenue")
            - SumField(m.product_results, "production_cost")
            - SumField(m.product_results, "holding_cost")
            + SumField(m.product_results, "liquidation_revenue")
            - m.order_change_cost_this_month
            - m.setup_cost_this_month
    IN  [f EXCEPT
           !.pc              = "month",
           !.month           = None,
           !.month_idx       = f.month_idx + 1,
           !.inventories     = m.inventories,
           !.current_order   = m.current_order,
           !.pending_order   = pending,
           !.base_setup_cost_deducted  = m.base_setup_cost_deducted,
           !.surge_setup_cost_deducted = m.surge_setup_cost_deducted,
           !.total_profit    = add_profit(f.total_profit, monthly_profit),
           !.monthly_results = Append(f.monthly_results,
               [month             |-> MONTHS[f.month_idx + 1],
                product_results   |-> m.product_results,
                order_change_cost |-> m.order_change_cost_this_month,
                setup_cost        |-> m.setup_cost_this_month,
                monthly_profit    |-> monthly_profit]),
           !.audit           = Append(f.audit,
               [base_total   |-> total_base_quantity(m.current_order),
                surge_total  |-> total_surge_quantity(m.current_order),
                base_setup   |-> m.base_setup,
                surge_setup  |-> m.surge_setup,
                took_effect  |-> m.took_effect,
                valued       |-> valued,
                option_value |-> IF valued
                                 THEN month_option_value(f, m, params, pair)
                                 ELSE 0,
                depth        |-> IF valued
                                 THEN value_option_depth(
                                          option_valuer(f, m, params, pair))
                                 ELSE 0,
                exercised    |-> exercised,
                order        |-> m.current_order,
                allocations  |-> new_allocations,
                new_surge_orders |-> new_surge_orders_of(new_allocations,
                                                         m.current_order),
                scheduled    |-> exercised /\ ~pending.none,
                pending      |-> pending])]

\* run_monthly_simulation_internal(params, pair, order, false, false) from the
\* state f on, as one computation: a scoring run, every draw at the planning
\* mean
RECURSIVE scoring_run(_, _, _)
scoring_run(f, params, pair) ==
    IF f.month_idx = TOTAL_MONTHS THEN f
    ELSE LET m == month_begin(f, params, pair, [i \in 1..Len(params.products) |-> 0])
         IN  scoring_run(month_end(f, m, params, pair, m.pending_order,
                                   values_option(f, m), FALSE, <<>>),
                         params, pair)

\* the sweep of find_optimal_single_product from candidate i on, as one
\* computation over scoring runs whose draws are all at the planning mean
RECURSIVE single_sweep(_, _, _, _, _)
single_sweep(params, pair, i, best_profit, best_quantity) ==
    IF i = NUM_CANDIDATES THEN best_quantity
    ELSE LET quantity == candidate_quantity(single_base_demand(params), i)
             run == scoring_run(engine_start(params,
                                    candidate_order(params.products[1].id, quantity),
                                    FALSE, FALSE),
                                params, pair)
             mean_profit == mean_profit_of([r \in 1..SIMULATIONS_PER_CANDIDATE |->
                                               run.total_profit])
         IN  IF is_better(mean_profit, best_profit)
             THEN single_sweep(params, pair, i + 1, mean_profit, quantity)
             ELSE single_sweep(params, pair, i + 1, best_profit, best_quantity)

\* find_optimal_production_quantities_internal for a product count other
\* than 2, as one computation
find_optimal_production_quantities_internal(params, pair) ==
    IF Len(params.products) = 1
    THEN <<<<params.products[1].id,
             single_sweep(params, pair, 0, NEG_INFINITY, single_base_demand(params))>>>>
    ELSE allocate_proportionally(product_means(params),
                                 pair.base_supplier.fixed_capacity
                                 + pair.surge_supplier.fixed_capacity)

\* ------------------------------------------------------ Monte Carlo evaluator

\* profits.sort_by(partial_cmp): ascending
RECURSIVE Insert(_, _)
Insert(x, sorted) ==
    IF sorted = <<>> THEN <<x>>
    ELSE IF x <= Head(sorted) THEN <<x>> \o sorted
    ELSE <<Head(sorted)>> \o Insert(x, Tail(sorted))

RECURSIVE sort_ascending(_)
sort_ascending(s) == IF s = <<>> THEN <<>> ELSE Insert(Head(s), sort_ascending(Tail(s)))

\* a slip of the rounding: truncation instead of round
percentile_index_truncated(p, len) == (p * (len - 1)) \div 100

\* ((p / 100.0) * (len - 1)).round() as usize, round being half away from zero
percentile_index(p, len) == (2 * p * (len - 1) + 100) \div 200

\* the closure percentile of run_monte_carlo_simulation over the sorted profits
percentile(profits, p) ==
    profits[Min(percentile_index(p, Len(profits)), Len(profits) - 1) + 1]

\* the statistics of the sorted profits; the mean and the variance in SCALE
\* units (std_dev_profit is the variance's square root)
monte_carlo_stats(sorted, num_simulations) ==
    LET mean_profit == mean_profit_of(sorted)
    IN  [num_simulations |-> num_simulations,
         mean_profit     |-> mean_profit,
         variance        |->
             SumSeq([i \in 1..Len(sorted) |->
                        FMul(sorted[i] * SCALE - mean_profit,
                             sorted[i] * SCALE - mean_profit)]) \div Len(sorted),
         min_profit      |-> sorted[1],
         max_profit      |-> sorted[Len(sorted)],
         percentile_10   |-> percentile(sorted, 10),
         percentile_25   |-> percentile(sorted, 25),
         percentile_50   |-> percentile(sorted, 50),
         percentile_75   |-> percentile(sorted, 75),
         percentile_90   |-> percentile(sorted, 90)]

\* ------------------------------------------------------------------- state

VARIABLES
    cfg,      \* the evaluation's inputs: params, pair, monthly_order,
              \* num_simulations, and the deviates the random source may give
    stack,    \* the call stack below the evaluator: engine and optimizer frames
    profits,  \* run_monte_carlo_simulation's profits
    stats,    \* the MonteCarloStats returned, None before
    call,     \* a direct call of a function of the library, None without
    ret       \* what the call returned, None before

vars == <<cfg, stack, profits, stats, call, ret>>

Top == stack[Len(stack)]

Caller == stack[Len(stack) - 1]

\* the stack with its top frame replaced
WithTop(f) == [stack EXCEPT ![Len(stack)] = f]

\* the stack with its top frame popped and the new top replaced
PopInto(f) == [i \in 1..(Len(stack) - 1) |-> IF i = Len(stack) - 1 THEN f ELSE stack[i]]

\* the deviates of one month's demand draws, one per product (the draw of a
\* product without demand parameters is never made)
Deviates(params, use_actual_demand) ==
    LET zset == IF use_actual_demand THEN cfg.z_actual ELSE cfg.z_plan
    IN  {zs \in [1..Len(params.products) -> zset \cup {0}] :
            \A i \in 1..Len(params.products) :
                IF get_demand_params(params, params.products[i].id) = NoParams
                THEN zs[i] = 0 ELSE zs[i] \in zset}

\* a slip of run_monthly_simulation: enable_options false
run_monthly_simulation_plain(params, pair, initial_order) ==
    engine_start(params, initial_order, FALSE, TRUE)

\* run_monthly_simulation: options enabled, actual demand
run_monthly_simulation(params, pair, initial_order) ==
    engine_start(params, initial_order, TRUE, TRUE)

\* the frame of find_optimal_production_quantities_internal
optimizer_start(enable_options) ==
    [kind           |-> "optimizer",
     enable_options |-> enable_options,
     pc             |-> "dispatch",
     i              |-> 0,
     j              |-> 0,
     profits        |-> <<>>,
     best_profit    |-> NEG_INFINITY,
     best_quantity  |-> 0,
     best_a_coarse  |-> 0,
     best_b_coarse  |-> 0,
     best_allocation |-> <<>>,
     result         |-> <<>>,
     scored         |-> <<>>]

\* the grid search's pass in progress: its steps, its simulations and the
\* quantities of its point (i, j)
grid_steps(f) == IF f.pc = "coarse" THEN COARSE_STEPS ELSE FINE_STEPS

grid_sims(f) == IF f.pc = "coarse" THEN COARSE_SIMS ELSE FINE_SIMS

grid_point(f, products) ==
    IF f.pc = "coarse"
    THEN <<coarse_quantity(products[1][2], f.i), coarse_quantity(products[2][2], f.j)>>
    ELSE <<fine_quantity(fine_window(f.best_a_coarse), f.i),
           fine_quantity(fine_window(f.best_b_coarse), f.j)>>

\* the frame at the next point of the grid, the inner index running first
grid_advance(f) ==
    IF f.j < grid_steps(f)
    THEN [f EXCEPT !.j = f.j + 1, !.profits = <<>>]
    ELSE [f EXCEPT !.i = f.i + 1, !.j = 0, !.profits = <<>>]

\* a slip of find_optimal_production_quantities: enable_options true
find_optimal_production_quantities_valuing == optimizer_start(TRUE)

\* find_optimal_production_quantities: the search with options disabled
find_optimal_production_quantities == optimizer_start(FALSE)

\* --------------------------------------------------------------- scenarios

Product(id, selling_price, liquidation_price, monthly_holding_cost) ==
    [id |-> id, selling_price |-> selling_price,
     liquidation_price |-> liquidation_price,
     monthly_holding_cost |-> monthly_holding_cost]

ProductDemandParams(product_id, mean, std_dev, actual_mean, actual_std_dev) ==
    [product_id |-> product_id, mean_demand |-> mean, std_dev_demand |-> std_dev,
     actual_mean_demand |-> actual_mean, actual_std_dev_demand |-> actual_std_dev]

\* unit_cost is the supplier's cost as the option valuer reads it
Supplier(id, name, fixed_capacity, lead_time_months, unit_costs, setup_cost, unit_cost) ==
    [id |-> id, name |-> name, fixed_capacity |-> fixed_capacity,
     lead_time_months |-> lead_time_months, unit_costs |-> unit_costs,
     setup_cost |-> setup_cost, unit_cost |-> unit_cost]

SupplierPair(surge_lead_time) ==
    [base_supplier  |-> Supplier(0, "FarAway", 6, 3, (0 :> 5) @@ (1 :> 5) @@ (2 :> 5), 3, 5),
     surge_supplier |-> Supplier(1, "Close", 3, surge_lead_time,
                                 (0 :> 6) @@ (1 :> 6) @@ (2 :> 6), 2, 6)]

\* mean_demand .. monthly_holding_cost are the aggregate figures the option
\* valuer reads from its params
SimulationParams(products, demand_params, order_change_fee, mean_demand, std_dev_demand) ==
    [products |-> products, demand_params |-> demand_params,
     order_change_fee |-> order_change_fee,
     mean_demand |-> mean_demand, std_dev_demand |-> std_dev_demand,
     selling_price |-> 10, monthly_holding_cost |-> 1]

Order(base, surge) ==
    [base_orders  |-> [i \in 1..Len(base) |-> [product_id |-> i - 1, quantity |-> base[i]]],
     surge_orders |-> [i \in 1..Len(surge) |-> [product_id |-> i - 1, quantity |-> surge[i]]]]

\* one product; actual demand 0 or 4 a month; one exercise, in May
OneProductRandom ==
    [params  |-> SimulationParams(<<Product(0, 10, 2, 1)>>,
                                  <<ProductDemandParams(0, 4, 2, 3, 1)>>, 9, 4, 2),
     pairs   |-> {SupplierPair(1)},
     plans   |-> {Order(<<6>>, <<0>>)},
     z_actual |-> {0 - 4, 1},
     z_plan   |-> {0},
     simulations |-> {1}]

\* one product; actual demand 3 every month; an exercise at every opportunity
OneProductSteady ==
    [params  |-> SimulationParams(<<Product(0, 10, 2, 1)>>,
                                  <<ProductDemandParams(0, 4, 2, 3, 0)>>, 7, 4, 2),
     pairs   |-> {SupplierPair(0), SupplierPair(1), SupplierPair(2)},
     plans   |-> {Order(<<3>>, <<0>>), Order(<<0>>, <<0>>)},
     z_actual |-> {0},
     z_plan   |-> {0},
     simulations |-> 1..MaxSimulations]

\* two products; actual demand 4 and 3 every month
TwoProducts ==
    [params  |-> SimulationParams(<<Product(0, 10, 2, 1), Product(1, 8, 1, 1)>>,
                                  <<ProductDemandParams(0, 5, 2, 4, 0),
                                    ProductDemandParams(1, 4, 1, 3, 0)>>, 9, 4, 2),
     pairs   |-> {SupplierPair(1)},
     plans   |-> {Order(<<3, 3>>, <<0, 0>>)},
     z_actual |-> {0},
     z_plan   |-> {0},
     simulations |-> 1..MaxSimulations]

\* three products, the third without demand parameters
ThreeProducts ==
    [params  |-> SimulationParams(<<Product(0, 10, 2, 1), Product(1, 8, 1, 1),
                                    Product(2, 9, 3, 2)>>,
                                  <<ProductDemandParams(0, 4, 2, 3, 1),
                                    ProductDemandParams(1, 2, 1, 2, 0)>>, 9, 6, 3),
     pairs   |-> {SupplierPair(1)},
     plans   |-> {Order(<<2, 1, 1>>, <<0, 0, 0>>)},
     z_actual |-> {0 - 4, 1},
     z_plan   |-> {0},
     simulations |-> {1}]

\* the suppliers of SupplierPair(1) with capacities 3 and 1: less in total
\* than the smallest cell of the grid over planning means 5 and 4
TightPair ==
    [base_supplier  |-> [SupplierPair(1).base_supplier EXCEPT !.fixed_capacity = 3],
     surge_supplier |-> [SupplierPair(1).surge_supplier EXCEPT !.fixed_capacity = 1]]

\* the two products of TwoProducts on suppliers too small for their demand
TwoProductsTight ==
    [params  |-> TwoProducts.params,
     pairs   |-> {TightPair},
     plans   |-> {Order(<<2, 1>>, <<0, 0>>)},
     z_actual |-> {0},
     z_plan   |-> {0},
     simulations |-> {1}]

Scenarios ==
    {OneProductRandom, OneProductSteady, TwoProducts, TwoProductsTight, ThreeProducts}

\* the inputs of run_monte_carlo_simulation, and the deviates of the draws
Configurations ==
    UNION {{[params |-> sc.params, pair |-> pair, monthly_order |-> plan,
             num_simulations |-> n, z_actual |-> sc.z_actual, z_plan |-> sc.z_plan] :
                pair \in sc.pairs, plan \in sc.plans, n \in sc.simulations} :
           sc \in Scenarios}

Init ==
    /\ cfg \in Configurations
    /\ stack = <<>>
    /\ profits = <<>>
    /\ stats = None
    /\ call = None
    /\ ret = None

\* ----------------------------------------------------------------- actions

\* run_monte_carlo_simulation starts its next run
McRun ==
    /\ stack = <<>>
    /\ stats = None
    /\ Len(profits) < cfg.num_simulations
    /\ stack' = <<run_monthly_simulation(cfg.params, cfg.pair, cfg.monthly_order)>>
    /\ UNCHANGED <<cfg, profits, stats, call, ret>>

\* a month of the engine in which the option is not exercised
EngineMonth ==
    /\ stack # <<>>
    /\ Top.kind = "engine" /\ Top.pc = "month" /\ Top.month_idx < TOTAL_MONTHS
    /\ \E zs \in Deviates(cfg.params, Top.use_actual_demand) :
          LET m == month_begin(Top, cfg.params, cfg.pair, zs)
          IN  /\ ~exercises(Top, m, cfg.params, cfg.pair)
              /\ stack' = WithTop(month_end(Top, m, cfg.params, cfg.pair, m.pending_order,
                                            values_option(Top, m), FALSE, <<>>))
    /\ UNCHANGED <<cfg, profits, stats, call, ret>>

\* a month in which the option is exercised, up to the call of the optimizer
EngineExercise ==
    /\ stack # <<>>
    /\ Top.kind = "engine" /\ Top.pc = "month" /\ Top.month_idx < TOTAL_MONTHS
    /\ \E zs \in Deviates(cfg.params, Top.use_actual_demand) :
          LET m == month_begin(Top, cfg.params, cfg.pair, zs)
          IN  /\ exercises(Top, m, cfg.params, cfg.pair)
              /\ stack' = Append(WithTop([Top EXCEPT !.pc = "optimizing", !.month = m]),
                                 find_optimal_production_quantities)
    /\ UNCHANGED <<cfg, profits, stats, call, ret>>

\* the optimizer with one product starts its sweep
OptimizerSingle ==
    /\ stack # <<>>
    /\ Top.kind = "optimizer" /\ Top.pc = "dispatch"
    /\ Len(cfg.params.products) = 1
    /\ stack' = WithTop([Top EXCEPT !.pc = "single",
                                    !.best_quantity = single_base_demand(cfg.params)])
    /\ UNCHANGED <<cfg, profits, stats, call, ret>>

\* the optimizer with three or more products allocates proportionally
OptimizerProportional ==
    /\ stack # <<>>
    /\ Top.kind = "optimizer" /\ Top.pc = "dispatch"
    /\ Len(cfg.params.products) \notin {1, 2}
    /\ stack' = WithTop([Top EXCEPT
           !.pc = "return",
           !.result = allocate_proportionally(
                          product_means(cfg.params),
                          cfg.pair.base_supplier.fixed_capacity
                          + cfg.pair.surge_supplier.fixed_capacity)])
    /\ UNCHANGED <<cfg, profits, stats, call, ret>>

\* the optimizer with two products starts the coarse pass of its grid search
OptimizerGrid ==
    /\ stack # <<>>
    /\ Top.kind = "optimizer" /\ Top.pc = "dispatch"
    /\ Len(cfg.params.products) = 2
    /\ stack' = WithTop([Top EXCEPT
           !.pc = "coarse",
           !.best_a_coarse = product_means(cfg.params)[1][2],
           !.best_b_coarse = product_means(cfg.params)[2][2]])
    /\ UNCHANGED <<cfg, profits, stats, call, ret>>

\* a grid point over the total capacity is skipped
GridSkip ==
    /\ stack # <<>>
    /\ Top.kind = "optimizer" /\ Top.pc \in {"coarse", "fine"}
    /\ Top.i <= grid_steps(Top)
    /\ LET q == grid_point(Top, product_means(cfg.params))
       IN  over_capacity(q[1], q[2], cfg.pair.base_supplier.fixed_capacity
                                     + cfg.pair.surge_supplier.fixed_capacity)
    /\ stack' = WithTop(grid_advance(Top))
    /\ UNCHANGED <<cfg, profits, stats, call, ret>>

\* the grid search starts one scoring run of its point (i, j)
GridScore ==
    /\ stack # <<>>
    /\ Top.kind = "optimizer" /\ Top.pc \in {"coarse", "fine"}
    /\ Top.i <= grid_steps(Top)
    /\ Len(Top.profits) < grid_sims(Top)
    /\ LET products == product_means(cfg.params)
           q == grid_point(Top, products)
       IN  /\ ~over_capacity(q[1], q[2], cfg.pair.base_supplier.fixed_capacity
                                          + cfg.pair.surge_supplier.fixed_capacity)
           /\ stack' = Append(stack,
                  engine_start(cfg.params,
                      grid_order(products[1][1], q[1], products[2][1], q[2]),
                      Top.enable_options, FALSE))
    /\ UNCHANGED <<cfg, profits, stats, call, ret>>

\* the point (i, j) has its runs: it becomes the best when its mean is greater
GridCandidate ==
    /\ stack # <<>>
    /\ Top.kind = "optimizer" /\ Top.pc \in {"coarse", "fine"}
    /\ Top.i <= grid_steps(Top)
    /\ Len(Top.profits) = grid_sims(Top)
    /\ LET products    == product_means(cfg.params)
           q           == grid_point(Top, products)
           mean_profit == mean_profit_of(Top.profits)
           better      == is_better(mean_profit, Top.best_profit)
           next        == [grid_advance(Top) EXCEPT
                              !.scored = Append(@, score_entry(Top, q))]
       IN  stack' = WithTop(
               IF ~better THEN next
               ELSE IF Top.pc = "coarse"
               THEN [next EXCEPT !.best_profit = mean_profit,
                                 !.best_a_coarse = q[1],
                                 !.best_b_coarse = q[2]]
               ELSE [next EXCEPT !.best_profit = mean_profit,
                                 !.best_allocation =
                                     <<<<products[1][1], q[1]>>,
                                       <<products[2][1], q[2]>>>>])
    /\ UNCHANGED <<cfg, profits, stats, call, ret>>

\* the coarse pass is over: the fine pass starts from its best point
GridFine ==
    /\ stack # <<>>
    /\ Top.kind = "optimizer" /\ Top.pc = "coarse"
    /\ Top.i > COARSE_STEPS
    /\ LET products == product_means(cfg.params)
       IN  stack' = WithTop([Top EXCEPT
               !.pc = "fine", !.i = 0, !.j = 0,
               !.best_allocation = <<<<products[1][1], Top.best_a_coarse>>,
                                     <<products[2][1], Top.best_b_coarse>>>>])
    /\ UNCHANGED <<cfg, profits, stats, call, ret>>

\* the fine pass is over: the result is the best allocation
GridDone ==
    /\ stack # <<>>
    /\ Top.kind = "optimizer" /\ Top.pc = "fine"
    /\ Top.i > FINE_STEPS
    /\ stack' = WithTop([Top EXCEPT !.pc = "return", !.result = Top.best_allocation])
    /\ UNCHANGED <<cfg, profits, stats, call, ret>>

\* the sweep starts one scoring run of candidate i
OptimizerScore ==
    /\ stack # <<>>
    /\ Top.kind = "optimizer" /\ Top.pc = "single"
    /\ Top.i < NUM_CANDIDATES
    /\ Len(Top.profits) < SIMULATIONS_PER_CANDIDATE
    /\ stack' = Append(stack,
           engine_start(cfg.params,
               candidate_order(cfg.params.products[1].id,
                   candidate_quantity(single_base_demand(cfg.params), Top.i)),
               Top.enable_options, FALSE))
    /\ UNCHANGED <<cfg, profits, stats, call, ret>>

\* candidate i has its runs: it becomes the best when its mean is greater
OptimizerCandidate ==
    /\ stack # <<>>
    /\ Top.kind = "optimizer" /\ Top.pc = "single"
    /\ Top.i < NUM_CANDIDATES
    /\ Len(Top.profits) = SIMULATIONS_PER_CANDIDATE
    /\ LET mean_profit == mean_profit_of(Top.profits)
           better      == is_better(mean_profit, Top.best_profit)
       IN  stack' = WithTop([Top EXCEPT
               !.i = Top.i + 1,
               !.profits = <<>>,
               !.scored = Append(@, score_entry(Top,
                   <<candidate_quantity(single_base_demand(cfg.params), Top.i)>>)),
               !.best_profit = IF better THEN mean_profit ELSE Top.best_profit,
               !.best_quantity =
                   IF better
                   THEN candidate_quantity(single_base_demand(cfg.params), Top.i)
                   ELSE Top.best_quantity])
    /\ UNCHANGED <<cfg, profits, stats, call, ret>>

\* the sweep is over: its result is the best quantity
OptimizerSingleDone ==
    /\ stack # <<>>
    /\ Top.kind = "optimizer" /\ Top.pc = "single"
    /\ Top.i = NUM_CANDIDATES
    /\ stack' = WithTop([Top EXCEPT
           !.pc = "return",
           !.result = <<<<cfg.params.products[1].id, Top.best_quantity>>>>])
    /\ UNCHANGED <<cfg, profits, stats, call, ret>>

\* the optimizer returns to the month that exercised, which schedules the
\* revision and ends
OptimizerReturn ==
    /\ Len(stack) >= 2
    /\ Top.kind = "optimizer" /\ Top.pc = "return"
    /\ Caller.kind = "engine" /\ Caller.pc = "optimizing"
    /\ stack' = PopInto(month_end(Caller, Caller.month, cfg.params, cfg.pair,
                                  schedule(Caller.month_idx, Caller.month.current_order,
                                           Top.result, cfg.pair),
                                  TRUE, TRUE, Top.result))
    /\ UNCHANGED <<cfg, profits, stats, call, ret>>

\* a scoring run returns its total profit to the optimizer
EngineReturn ==
    /\ Len(stack) >= 2
    /\ Top.kind = "engine" /\ Top.pc = "month" /\ Top.month_idx = TOTAL_MONTHS
    /\ Caller.kind = "optimizer"
    /\ stack' = PopInto([Caller EXCEPT !.profits = Append(@, Top.total_profit)])
    /\ UNCHANGED <<cfg, profits, stats, call, ret>>

\* a run of the evaluator returns its total profit
McCollect ==
    /\ Len(stack) = 1
    /\ Top.kind = "engine" /\ Top.pc = "month" /\ Top.month_idx = TOTAL_MONTHS
    /\ stack' = <<>>
    /\ profits' = Append(profits, Top.total_profit)
    /\ UNCHANGED <<cfg, stats, call, ret>>

\* the runs are over: the profits are sorted and reduced to the statistics
McFinish ==
    /\ stack = <<>>
    /\ stats = None
    /\ Len(profits) = cfg.num_simulations
    /\ profits' = sort_ascending(profits)
    /\ stats' = monte_carlo_stats(sort_ascending(profits), cfg.num_simulations)
    /\ UNCHANGED <<cfg, stack, call, ret>>

Next ==
    \/ McRun
    \/ EngineMonth
    \/ EngineExercise
    \/ OptimizerSingle
    \/ OptimizerProportional
    \/ OptimizerGrid
    \/ GridSkip
    \/ GridScore
    \/ GridCandidate
    \/ GridFine
    \/ GridDone
    \/ OptimizerScore
    \/ OptimizerCandidate
    \/ OptimizerSingleDone
    \/ OptimizerReturn
    \/ EngineReturn
    \/ McCollect
    \/ McFinish

Spec == Init /\ [][Next]_vars

\* -------------------------------------------------- direct calls of the library

\* the suppliers of a direct call: the capacities vary
CapacityPair(base_capacity, surge_capacity) ==
    [base_supplier  |-> Supplier(0, "FarAway", base_capacity, 3, (0 :> 5), 3, 5),
     surge_supplier |-> Supplier(1, "Close", surge_capacity, 1, (0 :> 6), 2, 6)]

\* product 0 has no variability, product 1 has cv 0.5, product 2 has no
\* demand parameters
SplitParams ==
    SimulationParams(<<Product(0, 10, 2, 1), Product(1, 10, 2, 1), Product(2, 10, 2, 1)>>,
                     <<ProductDemandParams(0, 4, 0, 4, 0),
                       ProductDemandParams(1, 4, 2, 4, 2)>>, 7, 4, 2)

\* the sequences of at most n elements of S
RECURSIVE SeqsUpTo(_, _)
SeqsUpTo(S, n) ==
    IF n = 0 THEN {<<>>}
    ELSE LET shorter == SeqsUpTo(S, n - 1)
         IN  shorter \cup {Append(q, x) : q \in {r \in shorter : Len(r) = n - 1}, x \in S}

SplitCalls ==
    {[fn |-> "split_order_quantities", product_quantities |-> pq,
      pair |-> CapacityPair(b, g), params |-> SplitParams] :
        pq \in SeqsUpTo((0..2) \X (0..MaxTarget), MaxProducts),
        b \in 0..MaxCapacity, g \in 0..MaxCapacity}
    \cup
    {[fn |-> "split_order_quantities", product_quantities |-> <<<<0, 1000>>>>,
      pair |-> CapacityPair(600, 600), params |-> SplitParams]}

\* the valuer's parameters of a direct call: the fee and the variability vary
ValuerParams(order_change_fee, std_dev_demand) ==
    SimulationParams(<<Product(0, 10, 2, 1)>>,
                     <<ProductDemandParams(0, 4, std_dev_demand, 3, 1)>>,
                     order_change_fee, 4, std_dev_demand)

ValuerCalls ==
    {[fn |-> "value_option", current_order_quantity |-> q, inventory |-> inv,
      current_month |-> month, params |-> ValuerParams(fee, sd),
      pair |-> SupplierPair(1)] :
        q \in {0, 3, 6}, inv \in {0, 2}, month \in 0..SEASON_MONTHS,
        fee \in {0, 7}, sd \in {0, 2}}

\* ------------------------------------------------------------ supplier pairing

\* the suppliers that can be base suppliers: lead_time_months >= 1
base_eligible(suppliers) ==
    SelectSeq(suppliers, LAMBDA x : x.lead_time_months >= 1)

\* a slip of the surge filter: <= 2 instead of < 2
surge_eligible_inclusive(suppliers) ==
    SelectSeq(suppliers, LAMBDA x : x.lead_time_months <= 2)

\* the suppliers that can be surge suppliers: lead_time_months < 2
surge_eligible(suppliers) ==
    SelectSeq(suppliers, LAMBDA x : x.lead_time_months < 2)

\* the loops of generate_intelligent_pairs from the i-th base-eligible
\* supplier on: each with each surge-eligible supplier of another id
RECURSIVE pairs_loop(_, _, _, _)
pairs_loop(bases, surges, i, pairs) ==
    IF i > Len(bases) THEN pairs
    ELSE LET others == SelectSeq(surges, LAMBDA x : bases[i].id # x.id)
         IN  pairs_loop(bases, surges, i + 1,
                        pairs \o [k \in 1..Len(others) |->
                                     [base_supplier  |-> bases[i],
                                      surge_supplier |-> others[k]]])

generate_intelligent_pairs(suppliers) ==
    pairs_loop(base_eligible(suppliers), surge_eligible(suppliers), 1, <<>>)

\* supplier lists of ids 0..2 and lead times 0..2, ids possibly repeated
PairingCalls ==
    {[fn |-> "generate_intelligent_pairs", suppliers |-> ss] :
        ss \in SeqsUpTo({Supplier(id, "S", 6, lead, (0 :> 5), 3, 5) :
                             id \in 0..2, lead \in 0..2}, MaxSuppliers)}

\* one product that has no demand parameters and costs nothing to buy, to
\* hold or to liquidate
UnknownProduct ==
    SimulationParams(<<Product(7, 10, 0, 0)>>, <<>>, 7, 4, 2)

\* scoring runs and searches over products of which one has no demand
\* parameters: the third of ThreeProducts, the only one of UnknownProduct
LookupCalls ==
    {[fn |-> "run_monthly_simulation_internal", params |-> ps, pair |-> SupplierPair(1),
      monthly_order |-> [base_orders  |-> [i \in 1..Len(ps.products) |->
                                             [product_id |-> ps.products[i].id,
                                              quantity |-> b]],
                         surge_orders |-> [i \in 1..Len(ps.products) |->
                                             [product_id |-> ps.products[i].id,
                                              quantity |-> g]]]] :
        ps \in {ThreeProducts.params, UnknownProduct}, b \in 0..2, g \in 0..1}
    \cup
    {[fn |-> "find_optimal_production_quantities", params |-> ps, pair |-> pair] :
        ps \in {ThreeProducts.params, UnknownProduct, OneProductSteady.params},
        pair \in {SupplierPair(1), CapacityPair(2, 2)}}

\* calls of simulation_demand with parameters and a raw sample of the normal
\* distribution in SCALE units: fractional means and deviations, samples
\* below zero, inside the range and beyond the cap
DemandCalls ==
    {[fn |-> "simulation_demand",
      dp |-> ProductDemandParams(0, m, sd, am, asd),
      use_actual |-> u, demand |-> d] :
        m \in {2500, 3000}, sd \in {0, 500}, am \in {0, 4200}, asd \in {0, 1100},
        u \in BOOLEAN, d \in {0 - 1500, 0, 2700, 3999, 4000, 6000, 9000}}

\* orders of any base quantities and one surge quantity, against any capacities
ValidateCalls ==
    {[fn |-> "validate_capacity_constraint",
      order |-> [base_orders  |-> [i \in 1..Len(bs) |->
                                      [product_id |-> i - 1, quantity |-> bs[i]]],
                 surge_orders |-> <<[product_id |-> 0, quantity |-> sq]>>],
      pair |-> CapacityPair(b, g)] :
        bs \in SeqsUpTo(0..MaxTarget, MaxProducts), sq \in 0..MaxTarget,
        b \in 0..MaxCapacity, g \in 0..MaxCapacity}

StatsCalls ==
    {[fn |-> "monte_carlo_stats", profits |-> ps] :
        ps \in SeqsUpTo((0 - 1)..MaxProfit, MaxProfits) \ {<<>>}}

FnInit ==
    /\ cfg = None
    /\ stack = <<>>
    /\ profits = <<>>
    /\ stats = None
    /\ call \in SplitCalls \cup ValuerCalls \cup StatsCalls \cup ValidateCalls
                 \cup PairingCalls \cup DemandCalls \cup LookupCalls
    /\ ret = None

\* split_order_quantities, and validate_capacity_constraint on its order
CallSplit ==
    /\ call.fn = "split_order_quantities"
    /\ ret = None
    /\ LET order == split_order_quantities(call.product_quantities, call.pair,
                                           call.params)
       IN  ret' = [order      |-> order,
                   validation |-> validate_capacity_constraint(order, call.pair)]
    /\ UNCHANGED <<cfg, stack, profits, stats, call>>

\* validate_capacity_constraint; order and pair are its arguments after the
\* call, which it borrows immutably
CallValidate ==
    /\ call.fn = "validate_capacity_constraint"
    /\ ret = None
    /\ ret' = [validation |-> validate_capacity_constraint(call.order, call.pair),
               order      |-> call.order,
               pair       |-> call.pair]
    /\ UNCHANGED <<cfg, stack, profits, stats, call>>

\* a scoring run of the engine
CallEngine ==
    /\ call.fn = "run_monthly_simulation_internal"
    /\ ret = None
    /\ LET run == scoring_run(engine_start(call.params, call.monthly_order, FALSE, FALSE),
                              call.params, call.pair)
       IN  ret' = [monthly_results |-> run.monthly_results,
                   total_profit    |-> run.total_profit]
    /\ UNCHANGED <<cfg, stack, profits, stats, call>>

\* the optimizer as the engine calls it
CallOptimizer ==
    /\ call.fn = "find_optimal_production_quantities"
    /\ ret = None
    /\ ret' = [allocations |->
                  find_optimal_production_quantities_internal(call.params, call.pair)]
    /\ UNCHANGED <<cfg, stack, profits, stats, call>>

\* simulation_demand on the sample the random source returned
CallDemand ==
    /\ call.fn = "simulation_demand"
    /\ ret = None
    /\ ret' = [demand |-> capped_demand(selected_parameters(call.dp, call.use_actual)[1],
                                        selected_parameters(call.dp, call.use_actual)[2],
                                        call.demand)]
    /\ UNCHANGED <<cfg, stack, profits, stats, call>>

\* generate_intelligent_pairs
CallPairing ==
    /\ call.fn = "generate_intelligent_pairs"
    /\ ret = None
    /\ ret' = [pairs |-> generate_intelligent_pairs(call.suppliers)]
    /\ UNCHANGED <<cfg, stack, profits, stats, call>>

\* OptionValuation::new and value_option; beyond are the values of lattice
\* nodes at and past the end of the evaluation period
CallValueOption ==
    /\ call.fn = "value_option"
    /\ ret = None
    /\ LET v == OptionValuation_new(call.current_order_quantity, call.inventory,
                                    call.current_month, call.params, call.pair)
       IN  ret' = [value  |-> value_option(v),
                   remaining_months |-> v.remaining_months,
                   p      |-> risk_neutral_probability(v),
                   nodes  |-> IF v.remaining_months = 0 THEN {}
                              ELSE lattice_nodes(v, 0, 0, v.inventory),
                   beyond |-> {binomial_value_recursive(v, period, uplifts, inv) :
                                  period \in v.remaining_months..(v.remaining_months + 1),
                                  uplifts \in {0 - 1, 0, 2},
                                  inv \in {0, call.inventory + 1}}]
    /\ UNCHANGED <<cfg, stack, profits, stats, call>>

\* the reduction of run_monte_carlo_simulation on given profits
CallStats ==
    /\ call.fn = "monte_carlo_stats"
    /\ ret = None
    /\ LET sorted == sort_ascending(call.profits)
       IN  ret' = [sorted |-> sorted,
                   stats  |-> monte_carlo_stats(sorted, Len(sorted))]
    /\ UNCHANGED <<cfg, stack, profits, stats, call>>

FnNext ==
    \/ CallSplit
    \/ CallValueOption
    \/ CallStats
    \/ CallValidate
    \/ CallPairing
    \/ CallDemand
    \/ CallEngine
    \/ CallOptimizer

FnSpec == FnInit /\ [][FnNext]_vars

\* -------------------------------------------------------------- properties

\* the engine runs in progress: the evaluator's run and the scoring runs
EngineFrames == {stack[i] : i \in {j \in 1..Len(stack) : stack[j].kind = "engine"}}

\* the product lines of a run's ledger
ProductLines(f) ==
    UNION {{f.monthly_results[t].product_results[i] :
               i \in 1..Len(f.monthly_results[t].product_results)} :
           t \in 1..Len(f.monthly_results)}

\* C1: in every month of every engine run and for every product, the units
\* sold are at most the inventory after the incoming order (start + incoming)
\* and at most the sampled demand, and the ending inventory is not negative.
C1_SalesWithinStock ==
    \A f \in EngineFrames : \A r \in ProductLines(f) :
        /\ r.units_sold <= r.inventory_start + r.incoming
        /\ r.units_sold <= r.demand
        /\ r.inventory_end >= 0

\* a run with a month in which demand exceeded the stock and one in which the
\* stock exceeded the demand
C1_Witness ==
    \E f \in EngineFrames :
        /\ \E r \in ProductLines(f) :
              r.demand > r.inventory_start + r.incoming /\ r.units_sold > 0
        /\ \E r \in ProductLines(f) :
              r.demand < r.inventory_start + r.incoming /\ r.units_sold = r.demand

\* C2: the total profit of an engine run is the sum of the monthly_profit
\* fields of its ledger, the ledger holds one entry per month elapsed, in
\* season order, and so the 8 entries May..December when the run returns.
C2_ProfitIsLedgerSum ==
    \A f \in EngineFrames :
        /\ f.pc = "month" => Len(f.monthly_results) = f.month_idx
        /\ f.month_idx = 8 => Len(f.monthly_results) = 8
        /\ \A t \in 1..Len(f.monthly_results) :
              f.monthly_results[t].month =
                  <<"May", "June", "July", "August", "September", "October",
                    "November", "December">>[t]
        /\ f.total_profit = SumField(f.monthly_results, "monthly_profit")

\* a returned run of the evaluator with a profit, made of unequal months
C2_Witness ==
    /\ Len(stack) = 1
    /\ stack[1].month_idx = 8
    /\ stack[1].total_profit # 0
    /\ stack[1].monthly_results[1].monthly_profit
           # stack[1].monthly_results[2].monthly_profit
    /\ stack[1].monthly_results[8].monthly_profit # 0

\* the first month whose current order holds a quantity for the supplier
\* (field base_total or surge_total), 0 when there is none
FirstOrdered(f, field) ==
    LET months == {t \in 1..Len(f.audit) : f.audit[t][field] > 0}
    IN  IF months = {} THEN 0 ELSE CHOOSE t \in months : \A x \in months : t <= x

\* C3: in every engine run the setup cost of a supplier is charged in the
\* first month in which the current order's total for that supplier is not
\* zero and in no other month; a supplier never ordered from is never
\* charged.
C3_SetupChargedOnce ==
    \A f \in EngineFrames : \A t \in 1..Len(f.monthly_results) :
        f.monthly_results[t].setup_cost =
            (IF t = FirstOrdered(f, "base_total")
             THEN cfg.pair.base_supplier.setup_cost ELSE 0)
            + (IF t = FirstOrdered(f, "surge_total")
               THEN cfg.pair.surge_supplier.setup_cost ELSE 0)

\* a returned run whose surge supplier got its first quantity by a revision
\* taking effect after the first month, and one whose base supplier never
\* got any
C3_Witness ==
    \E f \in EngineFrames :
        /\ f.month_idx = 8
        /\ FirstOrdered(f, "surge_total") > 1
        /\ f.audit[FirstOrdered(f, "surge_total")].took_effect
        /\ f.monthly_results[FirstOrdered(f, "surge_total")].setup_cost
               = cfg.pair.surge_supplier.setup_cost
        /\ FirstOrdered(f, "base_total") = 0

\* the pending changes scheduled and not yet in effect after month n
Outstanding(f, n) ==
    Cardinality({t \in 1..n : f.audit[t].scheduled})
    - Cardinality({t \in 1..n : f.audit[t].took_effect})

\* C4: at most one pending change is outstanding at any time of an engine
\* run, and a pending change scheduled in month t (0-based) is effective in
\* month t + the surge lead time, which is at most 7.
C4_OnePendingChange ==
    \A f \in EngineFrames :
        /\ \A n \in 0..Len(f.audit) : Outstanding(f, n) \in {0, 1}
        /\ f.pc = "month" =>
              (Outstanding(f, Len(f.audit)) = 1 <=> ~f.pending_order.none)
        /\ \A t \in 1..Len(f.audit) :
              f.audit[t].scheduled =>
                  /\ f.audit[t].pending.effective_month
                         = (t - 1) + cfg.pair.surge_supplier.lead_time_months
                  /\ f.audit[t].pending.effective_month <= 7

\* a pending change effective in December is outstanding
C4_Witness ==
    \E f \in EngineFrames :
        /\ ~f.pending_order.none
        /\ f.pending_order.effective_month = 7
        /\ f.audit[Len(f.audit)].scheduled

\* a direct call of fn has returned
Returned(fn) == call # None /\ call.fn = fn /\ ret # None

\* C5: the order returned by split_order_quantities has a total base quantity
\* of at most the base capacity and a total surge quantity of at most the
\* surge capacity, so validate_capacity_constraint returns Ok on it, and every
\* entry's base + surge is at most the entry's target.
C5_SplitWithinCapacity ==
    Returned("split_order_quantities") =>
        /\ SumSeq(Quantities(ret.order.base_orders))
               <= call.pair.base_supplier.fixed_capacity
        /\ SumSeq(Quantities(ret.order.surge_orders))
               <= call.pair.surge_supplier.fixed_capacity
        /\ ret.validation = [ok |-> TRUE]
        /\ Len(ret.order.base_orders) = Len(call.product_quantities)
        /\ Len(ret.order.surge_orders) = Len(call.product_quantities)
        /\ \A i \in 1..Len(call.product_quantities) :
              ret.order.base_orders[i].quantity + ret.order.surge_orders[i].quantity
                  <= call.product_quantities[i][2]

\* a split of two products whose targets exceed both capacities, the surge
\* capacity being the smaller, and whose order uses up both
C5_Witness ==
    /\ Returned("split_order_quantities")
    /\ Len(call.product_quantities) = 2
    /\ call.pair.surge_supplier.fixed_capacity < call.pair.base_supplier.fixed_capacity
    /\ call.pair.surge_supplier.fixed_capacity > 0
    /\ call.product_quantities[1][2] + call.product_quantities[2][2]
           > call.pair.base_supplier.fixed_capacity
               + call.pair.surge_supplier.fixed_capacity
    /\ SumSeq(Quantities(ret.order.base_orders))
           = call.pair.base_supplier.fixed_capacity
    /\ SumSeq(Quantities(ret.order.surge_orders))
           = call.pair.surge_supplier.fixed_capacity

\* the demand parameters of the i-th entry of a split call; none: cv is 0.2
EntryParams(i) ==
    LET found == {k \in 1..Len(call.params.demand_params) :
                     call.params.demand_params[k].product_id
                         = call.product_quantities[i][1]}
    IN  IF found = {} THEN [mean_demand |-> 5, std_dev_demand |-> 1]
        ELSE call.params.demand_params[CHOOSE k \in found : \A x \in found : k <= x]

\* n is floor(target / (1 + cv)) with cv = std_dev / mean
IsFloorOfWeighted(n, target, dp) ==
    /\ n * (dp.mean_demand + dp.std_dev_demand) <= target * dp.mean_demand
    /\ target * dp.mean_demand < (n + 1) * (dp.mean_demand + dp.std_dev_demand)

\* C6: in the order of split_order_quantities each entry's base quantity is
\* floor(target / (1 + cv)) clamped to the base capacity left by the earlier
\* entries, and its surge quantity is the rest of the target clamped to the
\* surge capacity left by the earlier entries; for one product with cv = 0
\* base = min(target, base capacity), surge = min(target - base, surge
\* capacity); target 1000 with capacities 600/600 gives base 600, surge 400.
C6_SplitFormula ==
    Returned("split_order_quantities") =>
        LET n == Len(call.product_quantities)
            base(i) == ret.order.base_orders[i].quantity
            surge(i) == ret.order.surge_orders[i].quantity
            target(i) == call.product_quantities[i][2]
            base_left(i) == call.pair.base_supplier.fixed_capacity
                                - SumSeq([j \in 1..(i - 1) |-> base(j)])
            surge_left(i) == call.pair.surge_supplier.fixed_capacity
                                 - SumSeq([j \in 1..(i - 1) |-> surge(j)])
        IN  /\ Len(ret.order.base_orders) = n
            /\ Len(ret.order.surge_orders) = n
            /\ \A i \in 1..n :
                  /\ ret.order.base_orders[i].product_id = call.product_quantities[i][1]
                  /\ ret.order.surge_orders[i].product_id = call.product_quantities[i][1]
                  /\ \E ideal \in 0..target(i) :
                        /\ IsFloorOfWeighted(ideal, target(i), EntryParams(i))
                        /\ base(i) = Min(ideal, base_left(i))
                  /\ surge(i) = Min(target(i) - base(i), surge_left(i))
            /\ (n = 1 /\ EntryParams(1).std_dev_demand = 0) =>
                  /\ base(1) = Min(target(1), call.pair.base_supplier.fixed_capacity)
                  /\ surge(1) = Min(target(1) - base(1),
                                    call.pair.surge_supplier.fixed_capacity)
            /\ (/\ n = 1 /\ target(1) = 1000
                /\ call.pair.base_supplier.fixed_capacity = 600
                /\ call.pair.surge_supplier.fixed_capacity = 600) =>
                  base(1) = 600 /\ surge(1) = 400

\* the split of target 1000 over capacities 600/600 with cv = 0 has returned
\* base 600 and surge 400
C6_Witness ==
    /\ Returned("split_order_quantities")
    /\ call.product_quantities = <<<<0, 1000>>>>
    /\ call.pair.base_supplier.fixed_capacity = 600
    /\ call.pair.surge_supplier.fixed_capacity = 600
    /\ EntryParams(1).std_dev_demand = 0
    /\ ret.order.base_orders[1].quantity = 600
    /\ ret.order.surge_orders[1].quantity = 400

\* C7: value_option returns exactly 0 when the valuer is built in month 8
\* (no month remains), whatever the order quantity, the inventory and the
\* fee; and every lattice node at a depth of at least the remaining months
\* has value 0.
C7_ZeroAtSeasonEnd ==
    Returned("value_option") =>
        /\ call.current_month = 8 => ret.value = 0
        /\ ret.remaining_months = 8 - call.current_month
        /\ ret.beyond = {0}

\* the valuer of month 8 has returned on a positive order quantity with a
\* zero fee, where an exercise now would have been worth something
C7_Witness ==
    /\ Returned("value_option")
    /\ call.current_month = 8
    /\ call.current_order_quantity > 0
    /\ call.params.order_change_fee = 0
    /\ ret.value = 0

\* i is round(p / 100 * (n - 1)), halves rounding up
IsNearestRank(i, p, n) ==
    /\ 200 * i <= 2 * p * (n - 1) + 100
    /\ 2 * p * (n - 1) + 100 < 200 * (i + 1)

\* the element of the ascending sample s that percentile p picks by nearest
\* rank with the index clamped to the sample
NearestRankElement(s, p) ==
    LET i == CHOOSE k \in 0..(Len(s) + 1) : IsNearestRank(k, p, Len(s))
    IN  s[(IF i > Len(s) - 1 THEN Len(s) - 1 ELSE i) + 1]

\* C8: on a non-empty ascending sample of length n every percentile of the
\* statistics is the element at index round(p / 100 * (n - 1)) clamped to
\* 0..n-1; min <= p10 <= p25 <= p50 <= p75 <= p90 <= max; and for odd n the
\* 50th percentile is the middle element.
C8_PercentileNearestRank ==
    Returned("monte_carlo_stats") =>
        LET s == ret.sorted
            n == Len(ret.sorted)
            st == ret.stats
        IN  /\ n > 0
            /\ \A i \in 1..(n - 1) : s[i] <= s[i + 1]
            /\ st.percentile_10 = NearestRankElement(s, 10)
            /\ st.percentile_25 = NearestRankElement(s, 25)
            /\ st.percentile_50 = NearestRankElement(s, 50)
            /\ st.percentile_75 = NearestRankElement(s, 75)
            /\ st.percentile_90 = NearestRankElement(s, 90)
            /\ st.min_profit <= st.percentile_10
            /\ st.percentile_10 <= st.percentile_25
            /\ st.percentile_25 <= st.percentile_50
            /\ st.percentile_50 <= st.percentile_75
            /\ st.percentile_75 <= st.percentile_90
            /\ st.percentile_90 <= st.max_profit
            /\ n % 2 = 1 => st.percentile_50 = s[(n + 1) \div 2]

\* the statistics of an odd number of distinct profits given out of order,
\* where the 25th percentile's rank falls on a half
C8_Witness ==
    /\ Returned("monte_carlo_stats")
    /\ Len(ret.sorted) = 3
    /\ call.profits # ret.sorted
    /\ ret.sorted[1] < ret.sorted[2]
    /\ ret.sorted[2] < ret.sorted[3]
    /\ ret.stats.percentile_25 = ret.sorted[2]
    /\ ret.stats.percentile_50 = ret.sorted[2]

\* C9 as stated: every engine run the Monte Carlo evaluator starts has
\* options disabled and uses the realized demand, so that during an evaluation
\* the option valuer and the optimizer are never invoked, no pending change is
\* scheduled and no revision fee is charged.
C9_EvaluationWithoutOptions ==
    stack # <<>> =>
        /\ Len(stack) = 1
        /\ stack[1].kind = "engine"
        /\ ~stack[1].enable_options
        /\ stack[1].use_actual_demand
        /\ stack[1].pending_order.none
        /\ \A t \in 1..Len(stack[1].audit) :
              /\ ~stack[1].audit[t].valued
              /\ ~stack[1].audit[t].exercised
              /\ ~stack[1].audit[t].scheduled
              /\ stack[1].monthly_results[t].order_change_cost = 0

\* C9 amended: every engine run the Monte Carlo evaluator starts uses the
\* realized demand and has options enabled: the option valuer is invoked in
\* each of the months 0..6 in which no pending change is outstanding and in no
\* other; the optimizer is invoked only by a month that valued the option; a
\* pending change is scheduled only by an exercise; and the revision fee is
\* charged in the months in which a pending change takes effect.
C9_EvaluationWithOptions ==
    stack # <<>> =>
        /\ stack[1].kind = "engine"
        /\ stack[1].enable_options
        /\ stack[1].use_actual_demand
        /\ Len(stack) >= 2 =>
              /\ stack[2].kind = "optimizer"
              /\ stack[1].pc = "optimizing"
              /\ stack[1].month_idx < 7
              /\ stack[1].month.pending_order.none
        /\ \A t \in 1..Len(stack[1].audit) :
              LET a == stack[1].audit[t]
              IN  /\ a.valued <=> /\ t - 1 < 7
                                  /\ Outstanding(stack[1], t - 1) = 0 \/ a.took_effect
                  /\ a.exercised => a.valued
                  /\ a.scheduled => a.exercised
                  /\ stack[1].monthly_results[t].order_change_cost =
                         IF a.took_effect THEN cfg.params.order_change_fee ELSE 0

\* a run of the evaluator on realized demand that valued the option, exercised
\* it, scheduled the revision and was charged the fee when it took effect
C9_Witness ==
    /\ Len(stack) = 1
    /\ stack[1].enable_options /\ stack[1].use_actual_demand
    /\ \E t \in 1..Len(stack[1].audit) :
          /\ stack[1].audit[t].exercised
          /\ stack[1].audit[t].scheduled
    /\ \E t \in 1..Len(stack[1].audit) :
          /\ stack[1].audit[t].took_effect
          /\ stack[1].monthly_results[t].order_change_cost = cfg.params.order_change_fee
          /\ cfg.params.order_change_fee > 0
    /\ \E t \in 1..Len(stack[1].audit) :
          ~stack[1].audit[t].valued /\ t - 1 < 7

\* the call chain is at most engine -> optimizer -> engine, the optimizer and
\* its scoring run have options disabled, and the scoring run draws planning
\* demand and never values or exercises the option
ScoringDisablesOptions ==
    /\ Len(stack) <= 3
    /\ \A i \in 1..Len(stack) :
          stack[i].kind = IF i = 2 THEN "optimizer" ELSE "engine"
    /\ Len(stack) >= 2 => ~stack[2].enable_options
    /\ Len(stack) = 3 =>
          /\ ~stack[3].enable_options
          /\ ~stack[3].use_actual_demand
          /\ stack[3].pc = "month"
          /\ stack[3].pending_order.none
          /\ \A t \in 1..Len(stack[3].audit) :
                /\ ~stack[3].audit[t].valued
                /\ ~stack[3].audit[t].exercised
                /\ ~stack[3].audit[t].scheduled
    /\ \A f \in EngineFrames : f.month_idx <= 8

\* an engine run returns only with its eighth month done
ReturnsAfterEightMonths ==
    (/\ stack # <<>>
     /\ Len(stack') = Len(stack) - 1
     /\ stack[Len(stack)].kind = "engine") =>
        /\ stack[Len(stack)].month_idx = 8
        /\ Len(stack[Len(stack)].monthly_results) = 8

\* how far the evaluation has come, most significant first: the runs
\* collected, the evaluator's run, the optimizer's pass, its point (i, j), the
\* runs of the point, the scoring run
Progress ==
    LET engine(f) == 2 * f.month_idx + (IF f.pc = "optimizing" THEN 1 ELSE 0)
        pass(f) == IF f.pc = "dispatch" THEN 0
                   ELSE IF f.pc \in {"single", "coarse"} THEN 1
                   ELSE IF f.pc = "fine" THEN 2 ELSE 3
    IN  <<2 * Len(profits) + (IF stack # <<>> THEN 1 ELSE 0)
                           + (IF stats # None THEN 1 ELSE 0),
          IF Len(stack) >= 1 THEN engine(stack[1]) ELSE 0,
          IF Len(stack) >= 2 THEN pass(stack[2]) ELSE 0,
          IF Len(stack) >= 2 THEN stack[2].i ELSE 0,
          IF Len(stack) >= 2 THEN stack[2].j ELSE 0,
          IF Len(stack) >= 2
          THEN 2 * Len(stack[2].profits) + (IF Len(stack) >= 3 THEN 1 ELSE 0)
          ELSE 0,
          IF Len(stack) >= 3 THEN engine(stack[3]) ELSE 0>>

\* the progress a is behind the progress b, and b is within its limits
Behind(a, b) ==
    /\ \E k \in 1..7 : a[k] < b[k] /\ \A n \in 1..(k - 1) : a[n] = b[n]
    /\ b[1] <= 2 * cfg.num_simulations + 1
    /\ b[2] <= 16 /\ b[3] <= 3 /\ b[4] <= 12 /\ b[5] <= 5 /\ b[6] <= 100
    /\ b[7] <= 16

\* the frame on top of the stack is at a point the program goes on from: a
\* month to run, a return its caller awaits, a pass with a point to score or
\* to close
GoesOn ==
    IF stack = <<>> THEN Len(profits) <= cfg.num_simulations
    ELSE IF Top.kind = "engine"
    THEN /\ Top.pc = "month"
         /\ Top.month_idx <= 8
         /\ Len(stack) >= 2 => Caller.kind = "optimizer"
                                /\ Caller.pc \in {"single", "coarse", "fine"}
    ELSE /\ Len(stack) >= 2
         /\ Caller.kind = "engine" /\ Caller.pc = "optimizing"
         /\ Top.pc \in {"dispatch", "single", "coarse", "fine", "return"}
         /\ Top.pc = "single" => /\ Len(cfg.params.products) = 1
                                 /\ Top.i <= 12
                                 /\ Len(Top.profits) <= 15
         /\ Top.pc = "coarse" => /\ Len(cfg.params.products) = 2
                                 /\ Top.i <= 6 /\ Top.j <= 5
                                 /\ Len(Top.profits) <= 30
         /\ Top.pc = "fine" => /\ Len(cfg.params.products) = 2
                               /\ Top.i <= 5 /\ Top.j <= 4
                               /\ Len(Top.profits) <= 50

\* C10: every engine run the optimizer starts to score a candidate has
\* options disabled and never invokes the option valuer or the optimizer, so
\* the call chain engine -> optimizer -> engine never nests deeper, and every
\* engine run returns, after exactly 8 months: it returns only with its
\* eighth month done, every step moves the evaluation forward within limits,
\* and the program goes on until the evaluation has returned its statistics.
C10_ScoringEndsTheRecursion ==
    /\ []ScoringDisablesOptions
    /\ [][ReturnsAfterEightMonths /\ Behind(Progress, Progress')]_vars
    /\ [](stats = None => GoesOn)

\* a scoring run of the grid search is in its fifth month, three frames deep,
\* under a run of the evaluator that has options enabled
C10_Witness ==
    /\ Len(stack) = 3
    /\ stack[1].enable_options
    /\ stack[2].pc = "fine"
    /\ stack[3].month_idx = 4
    /\ ~stack[3].enable_options

\* C11: validate_capacity_constraint returns Ok exactly when the total base
\* quantity is within the base capacity and the total surge quantity within
\* the surge capacity; otherwise the error names the exceeded supplier with
\* that supplier's capacity and requested total, the base supplier when both
\* are exceeded; the order and the pair are left as they were.
C11_ValidationComparesCapacities ==
    Returned("validate_capacity_constraint") =>
        LET total_base  == SumSeq([i \in 1..Len(call.order.base_orders) |->
                                      call.order.base_orders[i].quantity])
            total_surge == SumSeq([i \in 1..Len(call.order.surge_orders) |->
                                      call.order.surge_orders[i].quantity])
            base  == call.pair.base_supplier
            surge == call.pair.surge_supplier
        IN  /\ ret.validation = [ok |-> TRUE]
                  <=> /\ total_base <= base.fixed_capacity
                      /\ total_surge <= surge.fixed_capacity
            /\ total_base > base.fixed_capacity =>
                  /\ ~ret.validation.ok
                  /\ ret.validation.supplier_name = base.name
                  /\ ret.validation.capacity = base.fixed_capacity
                  /\ ret.validation.requested = total_base
            /\ (total_base <= base.fixed_capacity
                /\ total_surge > surge.fixed_capacity) =>
                  /\ ~ret.validation.ok
                  /\ ret.validation.supplier_name = surge.name
                  /\ ret.validation.capacity = surge.fixed_capacity
                  /\ ret.validation.requested = total_surge
            /\ ret.order = call.order
            /\ ret.pair = call.pair

\* an order over both capacities was validated and the base supplier reported
C11_Witness ==
    /\ Returned("validate_capacity_constraint")
    /\ total_base_quantity(call.order) > call.pair.base_supplier.fixed_capacity
    /\ total_surge_quantity(call.order) > call.pair.surge_supplier.fixed_capacity
    /\ call.pair.base_supplier.fixed_capacity # call.pair.surge_supplier.fixed_capacity
    /\ Len(call.order.base_orders) = 2
    /\ ~ret.validation.ok
    /\ ret.validation.supplier_name = "FarAway"

\* C12: in every month of every engine run, the scoring runs of the
\* optimizer included, the total quantity ordered from the base supplier is at
\* most its fixed capacity and the total ordered from the surge supplier is
\* at most its fixed capacity.
C12_OrdersWithinCapacity ==
    \A f \in EngineFrames :
        /\ total_base_quantity(f.current_order)
               <= cfg.pair.base_supplier.fixed_capacity
        /\ total_surge_quantity(f.current_order)
               <= cfg.pair.surge_supplier.fixed_capacity
        /\ \A t \in 1..Len(f.audit) :
              /\ f.audit[t].base_total <= cfg.pair.base_supplier.fixed_capacity
              /\ f.audit[t].surge_total <= cfg.pair.surge_supplier.fixed_capacity

\* the positions (i, j) of a supplier list that qualify as (base, surge)
QualifyingPositions(suppliers) ==
    {ij \in (1..Len(suppliers)) \X (1..Len(suppliers)) :
        /\ suppliers[ij[1]].lead_time_months >= 1
        /\ suppliers[ij[2]].lead_time_months < 2
        /\ suppliers[ij[1]].id # suppliers[ij[2]].id}

\* C13: generate_intelligent_pairs returns exactly the ordered pairs (base,
\* surge) of listed suppliers with base lead time >= 1, surge lead time < 2 and
\* different ids: every returned pair satisfies the three conditions, and
\* every qualifying pair of list entries is returned exactly once.
C13_PairsAreTheQualifyingOnes ==
    Returned("generate_intelligent_pairs") =>
        LET suppliers == call.suppliers
            pair(ij) == [base_supplier  |-> suppliers[ij[1]],
                         surge_supplier |-> suppliers[ij[2]]]
        IN  /\ \A k \in 1..Len(ret.pairs) :
                  /\ ret.pairs[k].base_supplier.lead_time_months >= 1
                  /\ ret.pairs[k].surge_supplier.lead_time_months < 2
                  /\ ret.pairs[k].base_supplier.id # ret.pairs[k].surge_supplier.id
                  /\ \E ij \in QualifyingPositions(suppliers) : ret.pairs[k] = pair(ij)
            /\ \A ij \in QualifyingPositions(suppliers) :
                  Cardinality({k \in 1..Len(ret.pairs) : ret.pairs[k] = pair(ij)})
                      = Cardinality({xy \in QualifyingPositions(suppliers) :
                                        pair(xy) = pair(ij)})
            /\ Len(ret.pairs) = Cardinality(QualifyingPositions(suppliers))

\* three suppliers of different ids and lead times 2, 1, 0 were paired: the
\* one of lead time 1 is base in one pair and surge in another, the one of
\* lead time 2 is never surge, the one of lead time 0 never base
C13_Witness ==
    /\ Returned("generate_intelligent_pairs")
    /\ Len(call.suppliers) = 3
    /\ call.suppliers[1].lead_time_months = 2 /\ call.suppliers[1].id = 0
    /\ call.suppliers[2].lead_time_months = 1 /\ call.suppliers[2].id = 1
    /\ call.suppliers[3].lead_time_months = 0 /\ call.suppliers[3].id = 2
    /\ Len(ret.pairs) = 3
    /\ ret.pairs[1].surge_supplier.id = 1
    /\ ret.pairs[3].base_supplier.id = 1

\* C14: every sample simulation_demand returns is a non-negative integer not
\* above floor(mean + 3 std_dev) of the parameter set use_actual selects (the
\* actual set when true, the planning set when false).
C14_SampleWithinCap ==
    Returned("simulation_demand") =>
        LET mean    == IF call.use_actual THEN call.dp.actual_mean_demand
                       ELSE call.dp.mean_demand
            std_dev == IF call.use_actual THEN call.dp.actual_std_dev_demand
                       ELSE call.dp.std_dev_demand
        IN  /\ ret.demand \in Nat
            /\ ret.demand <= (mean + 3 * std_dev) \div SCALE

\* a sample of 9.0 against actual parameters 4.2 and 1.1 (cap 7.5) gave 7,
\* although the planning parameters would have capped it at 4
C14_Witness ==
    /\ Returned("simulation_demand")
    /\ call.use_actual
    /\ call.dp.actual_mean_demand = 4200 /\ call.dp.actual_std_dev_demand = 1100
    /\ call.dp.mean_demand = 2500 /\ call.dp.std_dev_demand = 500
    /\ call.demand = 9000
    /\ ret.demand = 7

\* the optimizer frames of the stack, with their positions
OptimizerPositions == {k \in 1..Len(stack) : stack[k].kind = "optimizer"}

FirstBest(log) ==
    CHOOSE b \in 1..Len(log) :
        /\ \A k \in 1..Len(log) : log[k].mean_profit <= log[b].mean_profit
        /\ \A k \in 1..(b - 1) : log[k].mean_profit < log[b].mean_profit

\* C16: with exactly one product the optimizer scores the 12 candidates
\* floor(mean * (0.7 + 0.5 i / 11)), i = 0..11, each with the same
\* SIMULATIONS_PER_CANDIDATE runs and all with options disabled, and returns
\* the candidate of the highest mean profit, the earliest one on a tie.
C16_SweepReturnsFirstBest ==
    \A k \in OptimizerPositions :
        (Len(cfg.params.products) = 1
         /\ get_demand_params(cfg.params, cfg.params.products[1].id) # NoParams) =>
            LET f    == stack[k]
                mean == get_demand_params(cfg.params, cfg.params.products[1].id).mean_demand
            IN  /\ Len(f.scored) <= 12
                /\ \A n \in 1..Len(f.scored) :
                      LET q == f.scored[n].quantities[1]
                      IN  /\ Len(f.scored[n].quantities) = 1
                          /\ q \in Nat
                          /\ q * 110 <= mean * (77 + 5 * (n - 1))
                          /\ mean * (77 + 5 * (n - 1)) < (q + 1) * 110
                          /\ f.scored[n].runs = SIMULATIONS_PER_CANDIDATE
                          /\ f.scored[n].enable_options = FALSE
                /\ (k < Len(stack) /\ stack[k + 1].kind = "engine") =>
                      stack[k + 1].enable_options = FALSE
                /\ f.pc = "return" =>
                      /\ Len(f.scored) = 12
                      /\ f.result = <<<<cfg.params.products[1].id,
                                       f.scored[FirstBest(f.scored)].quantities[1]>>>>

\* the sweep of a product of planning mean 4 returned its eighth candidate,
\* the first of quantity 4: the seven before it had lower means and the four
\* after it tied with it
C16_Witness ==
    /\ stack # <<>>
    /\ Top.kind = "optimizer" /\ Top.pc = "return"
    /\ Len(cfg.params.products) = 1
    /\ Len(Top.scored) = 12
    /\ FirstBest(Top.scored) = 8
    /\ Top.result = <<<<0, 4>>>>
    /\ \A n \in 1..7 : Top.scored[n].mean_profit < Top.scored[8].mean_profit
    /\ \A n \in 9..12 : Top.scored[n].mean_profit = Top.scored[8].mean_profit

\* the entries of a scoring log that belong to one pass
OfPass(log, pass) == SelectSeq(log, LAMBDA e : e.pass = pass)

C18_SingleProductReallocates ==
    Returned("split_order_quantities") =>
        LET n == Len(call.product_quantities)
            base(i) == ret.order.base_orders[i].quantity
            surge(i) == ret.order.surge_orders[i].quantity
            target(i) == call.product_quantities[i][2]
            base_capacity == call.pair.base_supplier.fixed_capacity
            surge_capacity == call.pair.surge_supplier.fixed_capacity
            base_left(i) == base_capacity - SumSeq([j \in 1..(i - 1) |-> base(j)])
            surge_left(i) == surge_capacity - SumSeq([j \in 1..(i - 1) |-> surge(j)])
            share(i) == CHOOSE x \in 0..target(i) :
                            IsFloorOfWeighted(x, target(i), EntryParams(i))
        IN  /\ n = 1 =>
                  LET base_share == Min(share(1), base_capacity)
                      remainder  == target(1) - base_share
                      shortfall  == remainder - surge_capacity
                  IN  remainder > surge_capacity =>
                          /\ surge(1) = surge_capacity
                          /\ base(1) = Min(base_share + shortfall, base_capacity)
            /\ n > 1 =>
                  \A i \in 1..n :
                      /\ base(i) = Min(share(i), base_left(i))
                      /\ surge(i) = Min(target(i) - base(i), surge_left(i))

\* C19 as stated: for every invocation of the option valuer by the engine
\* (current month 0 to 6) the recursion depth of the lattice evaluation is at
\* most 7.
C19_DepthAtMostSeven ==
    \A f \in EngineFrames : \A t \in 1..Len(f.audit) :
        f.audit[t].valued => f.audit[t].depth <= 7

\* C19, amended: for every invocation of the option valuer by the engine
\* (current month 0 to 6) the lattice evaluation terminates with a recursion
\* depth of 8 minus the current month, which is at most 8 and is 8 for the
\* invocation of month 0.
C19_DepthIsRemainingMonths ==
    \A f \in EngineFrames : \A t \in 1..Len(f.audit) :
        f.audit[t].valued =>
            /\ t - 1 \in 0..6
            /\ f.audit[t].depth = 8 - (t - 1)
            /\ f.audit[t].depth <= 8

\* a run has valued the option in its first month with depth 8 and in its
\* seventh month with depth 2
C19_Witness ==
    \E f \in EngineFrames :
        /\ Len(f.audit) >= 7
        /\ f.audit[1].valued /\ f.audit[1].depth = 8
        /\ f.audit[7].valued /\ f.audit[7].depth = 2

\* whether the parameters of a direct call hold demand parameters for an id
Known(product_id) == get_demand_params(call.params, product_id) # NoParams

\* what every component does without failing, whatever the default: the
\* engine returns its eight months with demand 0 and no sale of a product
\* without demand parameters, and the proportional optimizer gives it nothing
EngineAndAllocationDefaultToZero ==
    /\ Returned("run_monthly_simulation_internal") =>
          /\ Len(ret.monthly_results) = 8
          /\ \A t \in 1..8 :
                /\ Len(ret.monthly_results[t].product_results) = Len(call.params.products)
                /\ \A i \in 1..Len(call.params.products) :
                      LET r == ret.monthly_results[t].product_results[i]
                      IN  ~Known(r.product_id) => r.demand = 0 /\ r.units_sold = 0
    /\ Returned("find_optimal_production_quantities") =>
          /\ Len(ret.allocations) = Len(call.params.products)
          /\ Len(call.params.products) >= 3 =>
                \A i \in 1..Len(ret.allocations) :
                    ~Known(ret.allocations[i][1]) => ret.allocations[i][2] = 0
    /\ Returned("split_order_quantities") =>
          /\ Len(ret.order.base_orders) = Len(call.product_quantities)
          /\ Len(ret.order.surge_orders) = Len(call.product_quantities)

\* the base quantity split_order_quantities gives entry i when its base share
\* is share: the share clamped to the base capacity the earlier entries left
SplitGivesBase(i, share) ==
    ret.order.base_orders[i].quantity
        = Min(share, call.pair.base_supplier.fixed_capacity
                     - SumSeq([j \in 1..(i - 1) |-> ret.order.base_orders[j].quantity]))

\* C20 as stated: a missing lookup of demand parameters defaults to zero in
\* every component: the engine uses demand 0 for the product in every month
\* (units sold 0), the optimizer uses planning mean 0 for it, and the
\* splitter uses variability 0 for it; no component fails.
C20_MissingParametersAreZero ==
    /\ EngineAndAllocationDefaultToZero
    /\ (Returned("find_optimal_production_quantities")
        /\ Len(call.params.products) = 1 /\ ~Known(call.params.products[1].id)) =>
          ret.allocations[1][2] = 0
    /\ Returned("split_order_quantities") =>
          \A i \in 1..Len(call.product_quantities) :
              ~Known(call.product_quantities[i][1]) =>
                  SplitGivesBase(i, call.product_quantities[i][2])

\* C20, amended: a missing lookup of demand parameters is recovered by a
\* default in every component and no component fails: the engine uses demand
\* 0 for the product in every month (units sold 0); the optimizer uses
\* planning mean 0 for it among three or more products and 60000 when it is
\* the only product; the splitter uses variability 0.2 for it.
C20_MissingParametersDefaults ==
    /\ EngineAndAllocationDefaultToZero
    /\ (Returned("find_optimal_production_quantities")
        /\ Len(call.params.products) = 1 /\ ~Known(call.params.products[1].id)) =>
          \E i \in 0..11 :
              /\ ret.allocations[1][2] * 110 <= 60000 * (77 + 5 * i)
              /\ 60000 * (77 + 5 * i) < (ret.allocations[1][2] + 1) * 110
    /\ Returned("split_order_quantities") =>
          \A i \in 1..Len(call.product_quantities) :
              ~Known(call.product_quantities[i][1]) =>
                  \E share \in 0..call.product_quantities[i][2] :
                      /\ 12 * share <= 10 * call.product_quantities[i][2]
                      /\ 10 * call.product_quantities[i][2] < 12 * (share + 1)
                      /\ SplitGivesBase(i, share)

\* the optimizer was called for a single product without demand parameters
\* and returned 42000, the first candidate around 60000
C20_Witness ==
    /\ Returned("find_optimal_production_quantities")
    /\ Len(call.params.products) = 1
    /\ call.params.demand_params = <<>>
    /\ ret.allocations = <<<<7, 42000>>>>

\* the incoming quantity of every product in a ledger entry is what an order
\* delivers in a month
DeliveredBy(entry, order) ==
    \A i \in 1..Len(entry.product_results) :
        entry.product_results[i].incoming
            = base_quantity_for(order, entry.product_results[i].product_id)
              + surge_quantity_for(order, entry.product_results[i].product_id)

\* C21: a pending change scheduled with effective month e becomes the current
\* order in month e exactly: its quantities are the incoming replenishment of
\* month e and the revision fee is in the ledger entry of month e, for every
\* surge lead time, 0 and 1 included.
C21_EffectiveInItsMonth ==
    \A f \in EngineFrames : \A t \in 1..Len(f.audit) :
        f.audit[t].scheduled =>
            LET e == f.audit[t].pending.effective_month
            IN  Len(f.audit) > e =>
                    /\ f.audit[e + 1].took_effect
                    /\ f.monthly_results[e + 1].order_change_cost
                           = cfg.params.order_change_fee
                    /\ DeliveredBy(f.monthly_results[e + 1], f.audit[t].pending.order)

\* the months (as indexes of the audit) of a run in which a change was
\* scheduled, and those in which one took effect
ScheduledIn(f) == {t \in 1..Len(f.audit) : f.audit[t].scheduled}

EffectiveIn(f) == {t \in 1..Len(f.audit) : f.audit[t].took_effect}

\* C22: every pending change that is scheduled takes effect in a later month
\* of the same season; the revision fee is charged exactly once per scheduled
\* change, in the month where it takes effect; order_change_cost is 0 in every
\* month where no pending change takes effect; so at the end of the season
\* the number of fee charges equals the number of changes scheduled.
C22_FeeOncePerChange ==
    \A f \in EngineFrames :
        /\ \A t \in 1..Len(f.audit) :
              f.monthly_results[t].order_change_cost
                  = IF f.audit[t].took_effect THEN cfg.params.order_change_fee ELSE 0
        /\ \A t \in ScheduledIn(f) :
              LET later == {x \in EffectiveIn(f) : x > t}
              IN  /\ f.month_idx = TOTAL_MONTHS => later # {}
                  /\ \A x \in later :
                        (\A y \in later : x <= y) =>
                            /\ x <= TOTAL_MONTHS
                            /\ DeliveredBy(f.monthly_results[x], f.audit[t].pending.order)
                            /\ \A y \in ScheduledIn(f) : ~(t < y /\ y < x)
        /\ \A x \in EffectiveIn(f) : \E t \in ScheduledIn(f) : t < x
        /\ f.month_idx = TOTAL_MONTHS =>
              /\ Cardinality(EffectiveIn(f)) = Cardinality(ScheduledIn(f))
              /\ SumSeq([t \in 1..Len(f.monthly_results) |->
                            f.monthly_results[t].order_change_cost])
                     = Cardinality(ScheduledIn(f)) * cfg.params.order_change_fee

\* a finished run scheduled a change in November, which took effect in
\* December, and paid the fee at least twice in the season
C22_Witness ==
    \E f \in EngineFrames :
        /\ f.month_idx = TOTAL_MONTHS
        /\ f.audit[7].scheduled
        /\ f.audit[8].took_effect
        /\ f.monthly_results[8].order_change_cost = cfg.params.order_change_fee
        /\ Cardinality(ScheduledIn(f)) >= 2

\* the ids of the products of the evaluation
ProductIds == {cfg.params.products[i].id : i \in 1..Len(cfg.params.products)}

\* an order has the base quantity of the initial order for every product
KeepsBase(order) ==
    \A id \in ProductIds :
        base_quantity_for(order, id) = base_quantity_for(cfg.monthly_order, id)

\* C23: in every month of an engine run with options enabled the base
\* quantity of every product in the current order is that of the initial
\* order (a revision leaves base unchanged), and each revision sets each
\* product's surge quantity, before any scaling to the capacity, to
\* max(0, target - current base).
C23_RevisionKeepsBase ==
    \A f \in EngineFrames :
        f.enable_options =>
            /\ KeepsBase(f.current_order)
            /\ ~f.pending_order.none => KeepsBase(f.pending_order.order)
            /\ \A t \in 1..Len(f.audit) :
                  /\ KeepsBase(f.audit[t].order)
                  /\ f.audit[t].exercised =>
                        /\ Len(f.audit[t].allocations) = Len(cfg.params.products)
                        /\ Len(f.audit[t].new_surge_orders) = Len(f.audit[t].allocations)
                        /\ \A i \in 1..Len(f.audit[t].allocations) :
                              LET id     == f.audit[t].allocations[i][1]
                                  target == f.audit[t].allocations[i][2]
                              IN  /\ f.audit[t].new_surge_orders[i].product_id = id
                                  /\ f.audit[t].new_surge_orders[i].quantity
                                         = Max(0, target
                                                  - base_quantity_for(cfg.monthly_order, id))

\* a run with base 6 exercised with target 4 and revised the surge quantity to
\* 0, and a revision of it has taken effect with the base quantity still 6
C23_Witness ==
    \E f \in EngineFrames :
        /\ f.enable_options
        /\ base_quantity_for(cfg.monthly_order, 0) = 6
        /\ \E t \in 1..Len(f.audit) :
              /\ f.audit[t].exercised
              /\ f.audit[t].allocations = <<<<0, 4>>>>
              /\ f.audit[t].new_surge_orders[1].quantity = 0
        /\ \E t \in 1..Len(f.audit) :
              f.audit[t].took_effect /\ base_quantity_for(f.audit[t].order, 0) = 6

ValuedIn(f) == {t \in 1..Len(f.audit) : f.audit[t].valued}

\* C25: the option valuer is invoked in a month only if options are enabled,
\* no pending change is outstanding at that point and the month is not the
\* last one; a pending change is scheduled only if the returned value is
\* strictly greater than the revision fee; hence after an exercise that
\* scheduled a change no valuation happens until that change has taken effect
\* or the season has ended.
C25_ValuationOnlyWithoutPending ==
    \A f \in EngineFrames :
        /\ \A t \in ValuedIn(f) :
              /\ f.enable_options
              /\ t - 1 < TOTAL_MONTHS - 1
              /\ Cardinality({x \in ScheduledIn(f) : x < t})
                     = Cardinality({x \in EffectiveIn(f) : x <= t})
        /\ \A t \in 1..Len(f.audit) :
              /\ f.audit[t].exercised =>
                    /\ f.audit[t].valued
                    /\ f.audit[t].option_value > cfg.params.order_change_fee * SCALE
              /\ f.audit[t].scheduled => f.audit[t].exercised
        /\ \A t \in ScheduledIn(f) : \A x \in ValuedIn(f) :
              x > t => \E y \in EffectiveIn(f) : t < y /\ y <= x

\* with a surge lead time of 2 a run exercised in May, did not value the
\* option in June, and valued it again in July, when the change took effect
C25_Witness ==
    \E f \in EngineFrames :
        /\ Len(f.audit) >= 3
        /\ f.audit[1].scheduled
        /\ ~f.audit[2].valued
        /\ f.audit[3].took_effect /\ f.audit[3].valued

\* the units of a product left after the sales of a ledger entry
LeftAfterSales(r) == r.inventory_start + r.incoming - r.units_sold

\* C26: for every product the inventory starts the season at 0; in every
\* month but the last inventory_end = inventory_start + incoming - units_sold
\* and the next month's inventory_start is this inventory_end; in the last
\* month the units left after the sales are liquidated at the liquidation
\* price and the inventory is set to 0; the liquidation revenue is 0 in every
\* month but the last.
C26_InventoryBalance ==
    \A f \in EngineFrames :
        /\ f.month_idx = 0 => \A id \in ProductIds : f.inventories[id] = 0
        /\ \A t \in 1..Len(f.monthly_results) :
              /\ Len(f.monthly_results[t].product_results) = Len(cfg.params.products)
              /\ \A i \in 1..Len(cfg.params.products) :
                    LET r == f.monthly_results[t].product_results[i]
                    IN  /\ r.product_id = cfg.params.products[i].id
                        /\ r.units_sold <= r.inventory_start + r.incoming
                        /\ t = 1 => r.inventory_start = 0
                        /\ t < TOTAL_MONTHS =>
                              /\ r.inventory_end = LeftAfterSales(r)
                              /\ r.liquidation_revenue = 0
                        /\ t = TOTAL_MONTHS =>
                              /\ r.inventory_end = 0
                              /\ r.liquidation_revenue
                                     = LeftAfterSales(r)
                                       * cfg.params.products[i].liquidation_price
                        /\ t < Len(f.monthly_results) =>
                              f.monthly_results[t + 1].product_results[i].inventory_start
                                  = r.inventory_end
                        /\ (t = Len(f.monthly_results) /\ f.pc = "month") =>
                              f.inventories[r.product_id] = r.inventory_end

\* a finished run carried stock from month to month and liquidated units in
\* December
C26_Witness ==
    \E f \in EngineFrames :
        /\ f.month_idx = TOTAL_MONTHS
        /\ \E i \in 1..Len(cfg.params.products) :
              /\ f.monthly_results[3].product_results[i].inventory_start > 0
              /\ f.monthly_results[3].product_results[i].units_sold > 0
              /\ f.monthly_results[8].product_results[i].liquidation_revenue > 0
              /\ f.monthly_results[8].product_results[i].inventory_end = 0
              /\ f.inventories[cfg.params.products[i].id] = 0

\* C27 as stated: in every ledger entry, the last month's included, the
\* holding cost of a product is the entry's recorded ending inventory times
\* the product's monthly holding cost per unit.
C27_HoldingOnRecordedInventory ==
    \A f \in EngineFrames : \A t \in 1..Len(f.monthly_results) :
        \A i \in 1..Len(cfg.params.products) :
            LET r == f.monthly_results[t].product_results[i]
            IN  r.holding_cost
                    = r.inventory_end * cfg.params.products[i].monthly_holding_cost

\* C27, amended: in every ledger entry the holding cost of a product is the
\* units left after the month's sales times the product's monthly holding
\* cost per unit; in every month but the last these units are the recorded
\* ending inventory, and in the last month, where the recorded ending
\* inventory is 0, they are the units that are liquidated.
C27_HoldingOnUnitsLeft ==
    \A f \in EngineFrames : \A t \in 1..Len(f.monthly_results) :
        \A i \in 1..Len(cfg.params.products) :
            LET r == f.monthly_results[t].product_results[i]
            IN  /\ r.holding_cost
                       = LeftAfterSales(r) * cfg.params.products[i].monthly_holding_cost
                /\ t < TOTAL_MONTHS => r.inventory_end = LeftAfterSales(r)
                /\ t = TOTAL_MONTHS => r.inventory_end = 0

\* the December entry of a run records an ending inventory of 0 and a holding
\* cost on the units it liquidated
C27_Witness ==
    \E f \in EngineFrames :
        /\ f.month_idx = TOTAL_MONTHS
        /\ \E i \in 1..Len(cfg.params.products) :
              LET r == f.monthly_results[8].product_results[i]
              IN  /\ LeftAfterSales(r) > 1
                  /\ r.inventory_end = 0
                  /\ r.holding_cost
                         = LeftAfterSales(r) * cfg.params.products[i].monthly_holding_cost
                  /\ r.holding_cost > 0

\* the inventory a lattice node of inventory `inventory` passes to the child
\* of node demand `demand` when `sold` units leave the stock
ChildInventory(inventory, sold) ==
    inventory + call.current_order_quantity - sold

\* C28 as stated: the inventory passed to a child node is inventory +
\* orderQuantity - min(inventory, nodeDemand), the sales being limited by
\* the parent's inventory before the order quantity is added.
C28_SalesFromInventoryBeforeOrder ==
    Returned("value_option") =>
        \A n \in ret.nodes :
            /\ n.inventory_up =
                   ChildInventory(n.inventory, Min(n.inventory, n.demand_up))
            /\ n.inventory_down =
                   ChildInventory(n.inventory, Min(n.inventory, n.demand_down))

\* C28 amended: the inventory passed to a child node is inventory +
\* orderQuantity - min(inventory + orderQuantity, nodeDemand): the sales are
\* limited by the parent's inventory after the order quantity is added.
C28_SalesFromInventoryAfterOrder ==
    Returned("value_option") =>
        \A n \in ret.nodes :
            /\ n.inventory_up =
                   ChildInventory(n.inventory,
                       Min(n.inventory + call.current_order_quantity, n.demand_up))
            /\ n.inventory_down =
                   ChildInventory(n.inventory,
                       Min(n.inventory + call.current_order_quantity, n.demand_down))

\* a node whose demand exceeds its inventory but not its inventory with the
\* order added: the whole demand is sold, part of it from the order
C28_Witness ==
    /\ Returned("value_option")
    /\ \E n \in ret.nodes :
           /\ n.inventory < n.demand_up
           /\ n.demand_up < n.inventory + call.current_order_quantity
           /\ n.inventory_up =
                  n.inventory + call.current_order_quantity - n.demand_up
           /\ n.inventory_up > 0

\* the continuation value of the lattice node n: the children's values
\* weighted by the risk-neutral probability
ContinuationValue(n) ==
    continuation_of(ret.p, n.continuation_up, n.continuation_down)

\* the lattice node value_option starts from
IsRoot(n) ==
    n.period = 0 /\ n.cumulative_uplifts = 0 /\ n.inventory = call.inventory

\* C29: for all inputs the value value_option returns is >= 0; when at
\* least one month remains it is >= the exercise payoff (benefit minus fee)
\* at the root node; and every lattice node's value is the maximum of its
\* exercise payoff and its continuation value.
C29_ValueNonNegative ==
    Returned("value_option") =>
        /\ ret.value # NaN
        /\ ret.value >= 0
        /\ \A n \in ret.nodes :
               /\ IsRoot(n) => ret.value >= n.exercise_payoff
               /\ n.value >= n.exercise_payoff
               /\ ContinuationValue(n) # NaN => n.value >= ContinuationValue(n)
               /\ n.value \in {n.exercise_payoff, ContinuationValue(n)}

\* C30: with exactly 2 products, whatever the planning means and the
\* supplier capacities, the allocation the optimizer returns has a combined
\* quantity qty_a + qty_b of at most base capacity + surge capacity.
C30_GridResultWithinCapacity ==
    \A k \in OptimizerPositions :
        (stack[k].pc = "return" /\ Len(cfg.params.products) = 2) =>
            stack[k].result[1][2] + stack[k].result[2][2]
                <= cfg.pair.base_supplier.fixed_capacity
                   + cfg.pair.surge_supplier.fixed_capacity
====
